---- MODULE Spec2Model ----
(***************************************************************************)
(* A model of IshraqatFajrQuizBot: the text extraction of utils.py, the    *)
(* quiz codec, the poll dispatcher and the session layer of handlers.py.   *)
(*                                                                         *)
(* A text is a sequence of one-character strings.  The regular             *)
(* expressions of the source are kept as syntax trees; the matcher returns *)
(* the match that Python's backtracking re module finds first (leftmost    *)
(* start, greedy before lazy, left alternative before right).              *)
(***************************************************************************)
EXTENDS Integers, Sequences, FiniteSets, TLC

VARIABLES
    nText,      \* SpecNorm: the raw text given to the clean-up
    nOnce,      \* SpecNorm: the text cleaned once
    nTwice,     \* SpecNorm: the text cleaned twice
    nPhase,     \* SpecNorm: how many times the clean-up has run
    exDoc,      \* SpecExtract: the blocks the input text was written from
    exText,     \* SpecExtract: the text given to extract_questions_from_text
    exResult,   \* SpecExtract: (questions, skipped) returned by the call
    exPhase,    \* SpecExtract: "input" before the call, "done" after it
    cqQuiz,     \* SpecCodec: the quiz (question, options, correct_option_id)
    cqNum,      \* SpecCodec: the question_num given to format_quiz_as_text (0 = None)
    cqText,     \* SpecCodec: the text format_quiz_as_text returned
    cqResult,   \* SpecCodec: what extract_questions_from_text made of that text
    cqPhase,    \* SpecCodec: "input", "encoded", "decoded"
    user_states,          \* handlers.user_states: user id -> state
    user_last_file_time,  \* handlers.user_last_file_time: user id -> time of the last accepted upload
    extracted_data,       \* handlers.user_states['extracted_data']: user id -> (questions, skipped)
    tasks,                \* the handle_file tasks that went past the file type check, each
                          \* with the last message it replied with
    now,                  \* datetime.now().timestamp(), in seconds
    xpMode,     \* SpecExport: "finish" (finish_extraction_callback) or "show" (show_questions_callback)
    xpItems,    \* SpecExport: the forwarded quizzes of the batch, or the extracted questions
    xpSaveOk,   \* SpecExport: whether save_questions_to_file is able to write the file
    xpOut,      \* SpecExport: what the callback replied with
    xpPhase,    \* SpecExport: "input" before the callback, "done" after it
    allowed_users_file,      \* SpecAccess: the user ids of the entries of allowed_users.json, in file order
    allowed_user_ids_cache,  \* SpecAccess: filedb._allowed_user_ids_cache
    users_file,              \* SpecAccess: the user ids of the entries of users.json
    db_users,                \* SpecAccess: the user ids of the rows of the MySQL table users
    acStarted,               \* SpecAccess: the users whose /start reached start_command
    acLast,     \* SpecAccess: the last message update: sender, text, the handler that ran, the
                \* reply, and the allowed-users file and cache as they were when it arrived
    user_quiz_batches,  \* SpecSession: handlers.user_quiz_batches: user id -> the quizzes collected
    fdLast,     \* SpecSession: the last document message: sender, the sender's session state
                \* when it arrived, the reply of handle_file, whether anything changed
    forwarded,  \* SpecCollect: the number of forwarded quiz messages that have arrived
    collected,  \* SpecCollect: user id -> the number of quizzes stored since the user's
                \* collection was started
    saved,      \* SpecCollect: the 'Quiz saved (count)' replies, in the order they were sent
    finishing,  \* SpecCollect: the calls of finish_extraction_callback that went past the
                \* check for saved quizzes
    exported    \* SpecCollect: the exports finish_extraction_callback replied with

normVars == <<nText, nOnce, nTwice, nPhase>>

extractVars == <<exDoc, exText, exResult, exPhase>>

codecVars == <<cqQuiz, cqNum, cqText, cqResult, cqPhase>>

botVars == <<user_states, user_last_file_time, extracted_data, tasks, now>>

exportVars == <<xpMode, xpItems, xpSaveOk, xpOut, xpPhase>>

accessVars == <<allowed_users_file, allowed_user_ids_cache, users_file, db_users, acStarted, acLast>>

sessionVars == <<user_quiz_batches, fdLast>>

collectVars == <<forwarded, collected, saved, finishing, exported>>

auxVars == <<exportVars, accessVars, sessionVars, collectVars>>

harnessVars == <<normVars, extractVars, codecVars, auxVars>>

vars == <<normVars, extractVars, codecVars, botVars, auxVars>>

----------------------------------------------------------------------------
(* Characters *)

Lower == {"a", "b", "c", "d", "e", "f", "g", "h", "i", "j", "k", "l", "m",
          "n", "o", "p", "q", "r", "s", "t", "u", "v", "w", "x", "y", "z"}

Upper == {"A", "B", "C", "D", "E", "F", "G", "H", "I", "J", "K", "L", "M",
          "N", "O", "P", "Q", "R", "S", "T", "U", "V", "W", "X", "Y", "Z"}

Digit == {"0", "1", "2", "3", "4", "5", "6", "7", "8", "9"}

\* \s of a str pattern, and the characters str.strip() removes
Space == {" ", "\t", "\n", "\r", "\f"}

LowerSeq == <<"a", "b", "c", "d", "e", "f", "g", "h", "i", "j", "k", "l", "m",
              "n", "o", "p", "q", "r", "s", "t", "u", "v", "w", "x", "y", "z">>

UpperSeq == <<"A", "B", "C", "D", "E", "F", "G", "H", "I", "J", "K", "L", "M",
              "N", "O", "P", "Q", "R", "S", "T", "U", "V", "W", "X", "Y", "Z">>

DigitSeq == <<"0", "1", "2", "3", "4", "5", "6", "7", "8", "9">>

\* position of c in the sequence cs (0 when absent)
IndexIn(c, cs) ==
    IF \E i \in 1..Len(cs) : cs[i] = c
    THEN CHOOSE i \in 1..Len(cs) : cs[i] = c
    ELSE 0

----------------------------------------------------------------------------
(* Regular expressions: syntax *)

Set(S)    == [t |-> "set", s |-> S]
NotSet(S) == [t |-> "nset", s |-> S]
Chr(c)    == [t |-> "set", s |-> {c}]
Cat(rs)   == [t |-> "seq", rs |-> rs]
Alt(a, b) == [t |-> "alt", a |-> a, b |-> b]
\* r{lo,hi}; hi = -1 is "no upper limit"; greedy = FALSE is the lazy form r{lo,hi}?
Rep(r, lo, hi, greedy) ==
    [t |-> "rep", r |-> r, min |-> lo, max |-> hi, greedy |-> greedy]
Star(r)     == Rep(r, 0, -1, TRUE)
LazyStar(r) == Rep(r, 0, -1, FALSE)
Plus(r)     == Rep(r, 1, -1, TRUE)
Opt(r)      == Rep(r, 0, 1, TRUE)
\* capturing group number g
Grp(g, r) == Cat(<<[t |-> "open", g |-> g], r, [t |-> "close", g |-> g]>>)
\* (?=r)
Look(r) == [t |-> "look", r |-> r]
\* ^ and $ without re.MULTILINE
Bol == [t |-> "bol"]
Eol == [t |-> "eol"]
Lit(cs) == Cat([i \in 1..Len(cs) |-> Chr(cs[i])])

\* . without re.DOTALL, and with it
Dot    == NotSet({"\n"})
DotAll == NotSet({})

----------------------------------------------------------------------------
(* Regular expressions: matching *)

NoCaps == [g \in 1..4 |-> <<0, 0>>]

\* the positions of s, the one after its last character included
Positions(s) == 1..(Len(s) + 1)

SetMin(S) == CHOOSE x \in S : \A y \in S : x <= y
SetMax(S) == CHOOSE x \in S : \A y \in S : x >= y

IsCharNode(n) == n.t \in {"set", "nset"}

CharOk(n, c) == IF n.t = "set" THEN c \in n.s ELSE c \notin n.s

\* the end of the longest run of characters of class n that starts at i
RunEnd(n, s, i) ==
    SetMin({k \in i..Len(s) : ~CharOk(n, s[k])} \cup {Len(s) + 1})

\* the ends j of the matches of n{lo,hi} at i that lie in good, n a character class
RunEnds(n, lo, hi, s, i, good) ==
    LET e == RunEnd(n, s, i)
    IN {j \in good : j >= i + lo /\ j <= e /\ (hi < 0 \/ j <= i + hi)}

Dec(x) == IF x > 0 THEN x - 1 ELSE x

\* e, with x computed first (keeps the evaluation of long chains shallow)
Force(x, e) == IF x = x THEN e ELSE e

\* F(x), with x computed first and only once
With(x, F(_)) == IF x = x THEN F(x) ELSE F(x)

RECURSIVE Pre(_, _, _)
RECURSIVE Goods(_, _, _, _)
RECURSIVE PreRep(_, _, _, _, _)
RECURSIVE PreUpTo(_, _, _, _, _)

\* Pre(n, s, good): the positions i from which n matches s[i..j) for some j in
\* good, the set of positions from which the rest of the pattern succeeds.
Pre(n, s, good) ==
    CASE IsCharNode(n) -> {i \in 1..Len(s) : CharOk(n, s[i]) /\ (i + 1) \in good}
      [] n.t = "seq" -> Goods(n.rs, s, good, 1)[1]
      [] n.t = "alt" -> Pre(n.a, s, good) \cup Pre(n.b, s, good)
      [] n.t = "rep" ->
            IF IsCharNode(n.r)
            THEN {i \in Positions(s) : RunEnds(n.r, n.min, n.max, s, i, good) # {}}
            ELSE PreRep(n.r, s, good, n.min, IF n.max < 0 THEN Len(s) + 1 ELSE n.max)
      [] n.t \in {"open", "close"} -> good
      [] n.t = "look" -> good \cap Pre(n.r, s, Positions(s))
      [] n.t = "bol" -> good \cap {1}
      [] n.t = "eol" ->
            {i \in good : i = Len(s) + 1 \/ (i = Len(s) /\ s[i] = "\n")}

\* <<g_k, ..., g_n, good>>: g_j the positions from which rs[j..n] reaches good
Goods(rs, s, good, k) ==
    IF k > Len(rs) THEN <<good>>
    ELSE With(Goods(rs, s, good, k + 1),
              LAMBDA later : <<Pre(rs[k], s, later[1])>> \o later)

\* the positions from which body{lo,hi} reaches good
PreRep(body, s, good, lo, hi) ==
    IF lo = 0 THEN PreUpTo(body, s, good, good, hi)
    ELSE With(PreRep(body, s, good, lo - 1, hi - 1),
              LAMBDA after : Pre(body, s, after))

\* the positions from which body{0,j+m} reaches good, acc being those for body{0,j};
\* the sets grow with j, so the first repeated set is the last
PreUpTo(body, s, good, acc, m) ==
    IF m = 0 THEN acc
    ELSE With(good \cup Pre(body, s, acc),
              LAMBDA more : IF more = acc THEN acc
                            ELSE PreUpTo(body, s, good, more, m - 1))

RECURSIVE Walk(_, _, _, _, _)
RECURSIVE WalkSeq(_, _, _, _, _, _)
RECURSIVE WalkRep(_, _, _, _, _, _, _, _)

\* Walk(n, s, i, good, caps): the match of n at i that a backtracking matcher
\* finds first among those ending in good (i is in Pre(n, s, good)): at every
\* choice the first alternative from which the whole pattern still succeeds.
Walk(n, s, i, good, caps) ==
    CASE IsCharNode(n) -> [end |-> i + 1, caps |-> caps]
      [] n.t = "seq" -> WalkSeq(n.rs, s, i, Goods(n.rs, s, good, 1), caps, 1)
      [] n.t = "alt" ->
            Walk(IF i \in Pre(n.a, s, good) THEN n.a ELSE n.b, s, i, good, caps)
      [] n.t = "rep" ->
            IF IsCharNode(n.r)
            THEN With(RunEnds(n.r, n.min, n.max, s, i, good),
                      LAMBDA ends :
                        [end |-> IF n.greedy THEN SetMax(ends) ELSE SetMin(ends),
                         caps |-> caps])
            ELSE WalkRep(n.r, s, i, good, caps, n.min,
                         IF n.max < 0 THEN Len(s) + 1 ELSE n.max, n.greedy)
      [] n.t = "open" -> [end |-> i, caps |-> [caps EXCEPT ![n.g] = <<i, 0>>]]
      [] n.t = "close" ->
            [end |-> i, caps |-> [caps EXCEPT ![n.g] = <<caps[n.g][1], i>>]]
      [] n.t \in {"look", "bol", "eol"} -> [end |-> i, caps |-> caps]

WalkSeq(rs, s, i, goods, caps, k) ==
    IF k > Len(rs) THEN [end |-> i, caps |-> caps]
    ELSE With(Walk(rs[k], s, i, goods[k + 1], caps),
              LAMBDA m : WalkSeq(rs, s, m.end, goods, m.caps, k + 1))

WalkRep(body, s, i, good, caps, lo, hi, greedy) ==
    With(PreRep(body, s, good, Dec(lo), hi - 1),
         LAMBDA after :
           IF (hi > 0 /\ i \in Pre(body, s, after)) /\ (greedy \/ ~(lo = 0 /\ i \in good))
           THEN With(Walk(body, s, i, after, caps),
                     LAMBDA m : WalkRep(body, s, m.end, good, m.caps,
                                        Dec(lo), hi - 1, greedy))
           ELSE [end |-> i, caps |-> caps])

NoMatch == [ok |-> FALSE, start |-> 0, end |-> 0, caps |-> NoCaps]

\* the match of r that starts at i, one of the positions `starts` where r matches
MatchAt(r, s, i) ==
    With(Walk(r, s, i, Positions(s), NoCaps),
         LAMBDA m : [ok |-> TRUE, start |-> i, end |-> m.end, caps |-> m.caps])

\* the leftmost match of r that starts at one of `starts`, at position pos or later
SearchFrom(r, s, starts, pos) ==
    With({i \in starts : i >= pos},
         LAMBDA later : IF later = {} THEN NoMatch ELSE MatchAt(r, s, SetMin(later)))

\* re.match: a match of r that starts at position 1
ReMatch(r, s) ==
    Force(s, SearchFrom(r, s, Pre(r, s, Positions(s)) \cap {1}, 1))

\* re.search
ReSearch(r, s) ==
    Force(s, With(Pre(r, s, Positions(s)), LAMBDA starts : SearchFrom(r, s, starts, 1)))

\* the non-overlapping matches of r in s, left to right (re.findall, re.finditer)
RECURSIVE MatchesFrom(_, _, _, _)
MatchesFrom(r, s, starts, pos) ==
    With(SearchFrom(r, s, starts, pos),
         LAMBDA m : IF ~m.ok THEN <<>>
                    ELSE <<m>> \o MatchesFrom(r, s, starts,
                                              IF m.end > m.start THEN m.end ELSE m.end + 1))

ReFindAll(r, s) ==
    Force(s, With(Pre(r, s, Positions(s)), LAMBDA starts : MatchesFrom(r, s, starts, 1)))

\* the pieces of s between the matches ms, the last one (after the last match) included
Between(ms, s) ==
    [k \in 1..(Len(ms) + 1) |->
        SubSeq(s, IF k = 1 THEN 1 ELSE ms[k - 1].end,
                  IF k > Len(ms) THEN Len(s) ELSE ms[k].start - 1)]

\* sep.join(parts)
RECURSIVE Join(_, _)
Join(parts, sep) ==
    IF Len(parts) = 0 THEN <<>>
    ELSE IF Len(parts) = 1 THEN parts[1]
    ELSE parts[1] \o sep \o Join(Tail(parts), sep)

\* re.sub with a replacement that holds no group reference
ReSub(r, repl, s) == Join(Between(ReFindAll(r, s), s), repl)

\* re.split for a pattern without groups
ReSplit(r, s) == Between(ReFindAll(r, s), s)

\* the text of group g of the match m in s ("" when the group took no part)
Group(m, s, g) ==
    IF m.caps[g] = <<0, 0>> THEN <<>>
    ELSE SubSeq(s, m.caps[g][1], m.caps[g][2] - 1)

\* str.strip()
RECURSIVE LStrip(_)
LStrip(s) == IF Len(s) > 0 /\ Head(s) \in Space THEN LStrip(Tail(s)) ELSE s

RECURSIVE RStrip(_)
RStrip(s) ==
    IF Len(s) > 0 /\ s[Len(s)] \in Space THEN RStrip(SubSeq(s, 1, Len(s) - 1)) ELSE s

Strip(s) == RStrip(LStrip(s))

----------------------------------------------------------------------------
(* extract_questions_from_text: the clean-up of the text *)

\* \n{3,}
RE_BlankRun == Rep(Chr("\n"), 3, -1, TRUE)

\* \r\n
RE_CRLF == Lit(<<"\r", "\n">>)

CleanUpText(text) ==
    ReSub(RE_CRLF, <<"\n">>, ReSub(RE_BlankRun, <<"\n", "\n">>, text))

----------------------------------------------------------------------------
(* extract_questions_from_text: helpers *)

\* str(n) for n >= 0
RECURSIVE IntToText(_)
IntToText(n) ==
    IF n < 10 THEN <<DigitSeq[n + 1]>>
    ELSE IntToText(n \div 10) \o <<DigitSeq[(n % 10) + 1]>>

\* ord(c) for an ASCII letter
Ord(c) ==
    IF c \in Upper THEN 64 + IndexIn(c, UpperSeq) ELSE 96 + IndexIn(c, LowerSeq)

\* c.lower() for an ASCII letter
ToLower(c) == IF c \in Upper THEN LowerSeq[IndexIn(c, UpperSeq)] ELSE c

\* s[:n]
Take(s, n) == SubSeq(s, 1, IF Len(s) < n THEN Len(s) ELSE n)

\* list.sort(key=lambda x: x[0]) on (letter, text) pairs: stable, by code point
RECURSIVE InsertByLetter(_, _)
InsertByLetter(sorted, x) ==
    IF Len(sorted) = 0 THEN <<x>>
    ELSE IF Ord(sorted[Len(sorted)][1]) <= Ord(x[1]) THEN Append(sorted, x)
    ELSE Append(InsertByLetter(SubSeq(sorted, 1, Len(sorted) - 1), x), sorted[Len(sorted)])

RECURSIVE SortByLetter(_)
SortByLetter(xs) ==
    IF Len(xs) = 0 THEN <<>>
    ELSE InsertByLetter(SortByLetter(SubSeq(xs, 1, Len(xs) - 1)), xs[Len(xs)])

Letter == Lower \cup Upper

AnswerWord == <<"A", "n", "s", "w", "e", "r">>

\* the length of the prefix of a stem that identifies a question
QuestionIdLen == 50

----------------------------------------------------------------------------
(* extract_questions_from_text: the block-based pass *)

\* \n\s*\n|\n(?=\d+\.?\s)
RE_BlockSplit ==
    Alt(Cat(<<Chr("\n"), Star(Set(Space)), Chr("\n")>>),
        Cat(<<Chr("\n"), Look(Cat(<<Plus(Set(Digit)), Opt(Chr(".")), Set(Space)>>))>>))

\* \n[a-z]\)\s*[^\n]+  with re.IGNORECASE
RE_OptionsPattern ==
    Cat(<<Chr("\n"), Set(Letter), Chr(")"), Star(Set(Space)), Plus(NotSet({"\n"}))>>)

\* (?:\*?Answer|\*?Answers?)
RE_AnswerWord ==
    Alt(Cat(<<Opt(Chr("*")), Lit(AnswerWord)>>),
        Cat(<<Opt(Chr("*")), Lit(AnswerWord), Opt(Chr("s"))>>))

\* \n(?:\*?Answer|\*?Answers?):\s*([a-zA-Z])
RE_AnswerLine ==
    Cat(<<Chr("\n"), RE_AnswerWord, Chr(":"), Star(Set(Space)), Grp(1, Set(Letter))>>)

\* ^\s*(\d+)[\.\)]?\s*
RE_QuestionNum ==
    Cat(<<Bol, Star(Set(Space)), Grp(1, Plus(Set(Digit))), Opt(Set({".", ")"})),
          Star(Set(Space))>>)

\* \n[a-z]\)\s*  with re.IGNORECASE
RE_OptionsStart == Cat(<<Chr("\n"), Set(Letter), Chr(")"), Star(Set(Space))>>)

\* \n([a-z])\)\s*([^\n]+)  with re.IGNORECASE
RE_OptionEntry ==
    Cat(<<Chr("\n"), Grp(1, Set(Letter)), Chr(")"), Star(Set(Space)),
          Grp(2, Plus(NotSet({"\n"})))>>)

NewQuestion(num, stem, options, correct) ==
    [question_num |-> num, question |-> stem, options |-> options,
     correct_option_id |-> correct]

AddSkipped(acc, label) == [acc EXCEPT !.skipped_questions = Append(@, label)]

\* a question whose id was seen before: logger.info("Skipped duplicate ..."), no more
Duplicate(acc, q) == acc

\* question_id = pure_question[:50]
QuestionId(stem) == Take(stem, QuestionIdLen)

\* questions.append(...) whether or not the id was seen before
AddQuestionAlways(acc, q) ==
    [acc EXCEPT !.questions = Append(@, q),
                !.extracted_questions = @ \cup {QuestionId(q.question)}]

\* questions.append(...) unless the id of the stem was seen before in this call
AddQuestion(acc, q) ==
    IF QuestionId(q.question) \notin acc.extracted_questions
    THEN [acc EXCEPT !.questions = Append(@, q),
                     !.extracted_questions = @ \cup {QuestionId(q.question)}]
    ELSE Duplicate(acc, q)

\* ord(correct_answer) - ord('a') for the letter of the answer line
CorrectIndex(answer_letter) == Ord(ToLower(answer_letter)) - Ord("a")

\* the (letter, text) pairs of the option lines, sorted by letter (lines 150-154)
OptionsMatches(options_text) ==
    With(ReFindAll(RE_OptionEntry, options_text),
         LAMBDA found :
           SortByLetter([k \in 1..Len(found) |->
               <<Group(found[k], options_text, 1)[1], Group(found[k], options_text, 2)>>]))

\* an empty block is put on the skipped list
EmptyBlockSkipped(acc, i) == AddSkipped(acc, IntToText(i))

\* an empty block: continue (lines 101-102)
EmptyBlock(acc, i) == acc

\* a block with fewer than 2 option lines: continue (lines 107-108)
NotAQuestionBlock(acc, i) == acc

\* the body of the loop over question_blocks; i counts the blocks from 1 (i+1 of the source)
ExtractBlock(acc, block, i) ==
    IF Strip(block) = <<>> THEN EmptyBlock(acc, i)
    ELSE IF Len(ReFindAll(RE_OptionsPattern, block)) < 2 THEN NotAQuestionBlock(acc, i)
    ELSE
    With(ReSearch(RE_AnswerLine, block), LAMBDA answer_match :
    IF ~answer_match.ok THEN AddSkipped(acc, IntToText(i))
    ELSE
    With(ReMatch(RE_QuestionNum, block), LAMBDA question_num_match :
    With(IF question_num_match.ok
         THEN Group(question_num_match, block, 1)
         ELSE IntToText(i), LAMBDA question_num :
    With(IF question_num_match.ok
         THEN Strip(SubSeq(block, question_num_match.end, Len(block)))
         ELSE Strip(block), LAMBDA question_text :
    With(ReSearch(RE_OptionsStart, question_text), LAMBDA options_start :
    IF ~options_start.ok THEN AddSkipped(acc, question_num)
    ELSE
    With(Strip(SubSeq(question_text, 1, options_start.start - 1)), LAMBDA pure_question :
    With(<<"\n">> \o Strip(SubSeq(question_text, options_start.start, Len(question_text))),
         LAMBDA options_text :
    With(OptionsMatches(options_text), LAMBDA options_matches :
    IF Len(options_matches) < 2 THEN AddSkipped(acc, question_num)
    ELSE
    With(CorrectIndex(Group(answer_match, block, 1)[1]), LAMBDA correct_index :
    IF correct_index < 0 \/ correct_index >= Len(options_matches)
    THEN AddSkipped(acc, question_num)
    ELSE AddQuestion(acc,
             NewQuestion(question_num, pure_question,
                         [k \in 1..Len(options_matches) |-> Strip(options_matches[k][2])],
                         correct_index)))))))))))

\* the loop over question_blocks, left at the first block that is skipped
RECURSIVE ExtractBlocksStopAtSkip(_, _, _)
ExtractBlocksStopAtSkip(acc, question_blocks, i) ==
    IF i > Len(question_blocks) THEN acc
    ELSE With(ExtractBlock(acc, question_blocks[i], i),
              LAMBDA next :
                IF Len(next.skipped_questions) > Len(acc.skipped_questions) THEN next
                ELSE ExtractBlocksStopAtSkip(next, question_blocks, i + 1))

RECURSIVE ExtractBlocks(_, _, _)
ExtractBlocks(acc, question_blocks, i) ==
    IF i > Len(question_blocks) THEN acc
    ELSE With(ExtractBlock(acc, question_blocks[i], i),
              LAMBDA next : ExtractBlocks(next, question_blocks, i + 1))

EmptyResult ==
    [questions |-> <<>>, extracted_questions |-> {}, skipped_questions |-> <<>>,
     question_count |-> 0]

\* lines 94-183: the split of the cleaned text, and the loop over the blocks
FlexibleApproach(cleaned) ==
    With(ReSplit(RE_BlockSplit, cleaned),
         LAMBDA question_blocks : ExtractBlocks(EmptyResult, question_blocks, 1))

----------------------------------------------------------------------------
(* extract_questions_from_text: the whole-document patterns *)

\* (?:(\d+)[-\.]?\s*)?(.*?)\n+(L<sep>\s*.*?(?:\nL<sep>\s*.*?){1,20})\n+
\* (?:\*?Answer|\*?Answers?):\s*(L)  with re.DOTALL, L the class of option letters
TemplatePattern(letters, sep, tail) ==
    Cat(<<Opt(Cat(<<Grp(1, Plus(Set(Digit))), Opt(Set({"-", "."})), Star(Set(Space))>>)),
          Grp(2, LazyStar(DotAll)),
          Plus(Chr("\n")),
          Grp(3, Cat(<<Set(letters), Chr(sep), Star(Set(Space)), LazyStar(DotAll),
                       Rep(Cat(<<Chr("\n"), Set(letters), Chr(sep), Star(Set(Space)),
                                 LazyStar(DotAll)>>), 1, 20, TRUE)>>)),
          Plus(Chr("\n")),
          RE_AnswerWord, Chr(":"), Star(Set(Space)),
          Grp(4, Set(letters))>> \o tail)

\* the list `patterns`
patterns ==
    <<TemplatePattern(Lower, ")", <<Opt(Chr(")"))>>),
      TemplatePattern(Upper, ")", <<Opt(Chr(")"))>>),
      TemplatePattern(Lower, ".", <<>>)>>

\* ([a-zA-Z])\.\s*(.*?)(?=\n[a-zA-Z]\.|$)  with re.DOTALL
RE_DotOptions ==
    Cat(<<Grp(1, Set(Letter)), Chr("."), Star(Set(Space)), Grp(2, LazyStar(DotAll)),
          Look(Alt(Cat(<<Chr("\n"), Set(Letter), Chr(".")>>), Eol))>>)

\* ([a-zA-Z]\))\s*(.*?)(?=\n[a-zA-Z]\)|$)  with re.DOTALL
RE_ParenOptions ==
    Cat(<<Grp(1, Cat(<<Set(Letter), Chr(")")>>)), Star(Set(Space)), Grp(2, LazyStar(DotAll)),
          Look(Alt(Cat(<<Chr("\n"), Set(Letter), Chr(")")>>), Eol))>>)

Contains(s, c) == \E i \in 1..Len(s) : s[i] = c

\* the option texts of one template match (lines 214-233)
TemplateOptions(options_text) ==
    With(ReFindAll(IF Contains(options_text, ".") /\ ~Contains(options_text, ")")
                   THEN RE_DotOptions ELSE RE_ParenOptions, options_text),
         LAMBDA options_raw :
           [k \in 1..Len(options_raw) |-> Strip(Group(options_raw[k], options_text, 2))])

\* the body of the loop over the matches of one pattern (lines 208-256)
ExtractMatch(acc, text, m) ==
    With([acc EXCEPT !.question_count = @ + 1], LAMBDA counted :
    With(IF Len(Group(m, text, 1)) > 0
         THEN Strip(Group(m, text, 1))
         ELSE IntToText(counted.question_count), LAMBDA question_num :
    With(TemplateOptions(Strip(Group(m, text, 3))), LAMBDA options :
    With(CorrectIndex(Strip(Group(m, text, 4))[1]), LAMBDA correct_index :
    IF 0 <= correct_index /\ correct_index < Len(options)
    THEN AddQuestion(counted,
             NewQuestion(question_num, Strip(Group(m, text, 2)), options, correct_index))
    ELSE AddSkipped(counted, question_num)))))

RECURSIVE ExtractMatches(_, _, _, _)
ExtractMatches(acc, text, matches, j) ==
    IF j > Len(matches) THEN acc
    ELSE With(ExtractMatch(acc, text, matches[j]),
              LAMBDA next : ExtractMatches(next, text, matches, j + 1))

RECURSIVE ApplyPatterns(_, _, _)
ApplyPatterns(acc, text, p) ==
    IF p > Len(patterns) THEN acc
    ELSE With(ReFindAll(patterns[p], text), LAMBDA matches :
         With(ExtractMatches(acc, text, matches, 1),
              LAMBDA next : ApplyPatterns(next, text, p + 1)))

\* extract_questions_from_text: (questions, skipped_questions)
\* the whole-document patterns applied after the block-based pass in every call
extract_questions_both_passes(text) ==
    With(CleanUpText(text), LAMBDA cleaned :
    With(ApplyPatterns(FlexibleApproach(cleaned), cleaned, 1), LAMBDA final :
    [questions |-> final.questions, skipped |-> final.skipped_questions]))

extract_questions_from_text(text) ==
    With(CleanUpText(text), LAMBDA cleaned :
    With(FlexibleApproach(cleaned), LAMBDA flexible :
    With(IF Len(flexible.questions) = 0
         THEN ApplyPatterns(flexible, cleaned, 1)
         ELSE flexible, LAMBDA final :
    [questions |-> final.questions, skipped |-> final.skipped_questions])))

----------------------------------------------------------------------------
(* format_quiz_as_text *)

\* chr(97 + i), for i < 26
LetterOf(i) == LowerSeq[i + 1]

AnswerPrefix == AnswerWord \o <<":", " ">>

NotProvided == <<"N", "o", "t", " ", "p", "r", "o", "v", "i", "d", "e", "d">>

ErrorFormattingQuiz ==
    <<"E", "r", "r", "o", "r", " ", "f", "o", "r", "m", "a", "t", "t", "i", "n", "g",
      " ", "q", "u", "i", "z">>

\* correct_option_id counted as given only when it is truthy
has_correct_answer_if_truthy(correct_option_id) == correct_option_id > 0

\* has_correct_answer = correct_option_id is not None
has_correct_answer(correct_option_id) == correct_option_id # -1

\* the option lines lettered "A)", "B)", ...
RECURSIVE OptionLinesUpper(_, _)
OptionLinesUpper(options, k) ==
    IF k > Len(options) THEN <<>>
    ELSE <<UpperSeq[k], ")", " ">> \o options[k] \o <<"\n">> \o OptionLinesUpper(options, k + 1)

\* the lines "a) text\n", "b) text\n", ... of options k..n
RECURSIVE OptionLines(_, _)
OptionLines(options, k) ==
    IF k > Len(options) THEN <<>>
    ELSE <<LetterOf(k - 1), ")", " ">> \o options[k] \o <<"\n">> \o OptionLines(options, k + 1)

\* format_quiz_as_text(quiz, question_num); question_num = 0 stands for None,
\* quiz.correct_option_id = -1 for a quiz without correct_option_id
format_quiz_as_text(quiz, question_num) ==
    LET prefix == IF question_num # 0 THEN IntToText(question_num) \o <<".", " ">> ELSE <<>>
        head == prefix \o quiz.question \o <<"\n">> \o OptionLines(quiz.options, 1)
        c == quiz.correct_option_id
    IN IF ~has_correct_answer(c) THEN head \o AnswerPrefix \o NotProvided
       ELSE IF c >= Len(quiz.options) THEN ErrorFormattingQuiz
       ELSE head \o AnswerPrefix \o <<LetterOf(c), ")", " ">> \o quiz.options[c + 1]

----------------------------------------------------------------------------
(* SpecNorm: the clean-up applied to a text, and to its own output *)

MaxNormLen == 5

NormChars == {"a", "\n", "\r"}

RECURSIVE TextsUpTo(_, _)
TextsUpTo(chars, n) ==
    IF n = 0 THEN {<<>>}
    ELSE LET shorter == TextsUpTo(chars, n - 1)
         IN shorter \cup {Append(t, c) : t \in {x \in shorter : Len(x) = n - 1}, c \in chars}

NoResult == [questions |-> <<>>, skipped |-> <<>>]

NoQuiz == [question |-> <<>>, options |-> <<>>, correct_option_id |-> -1]

\* the variables of the three function harnesses, at rest
BotIdle ==
    /\ user_states = <<>>
    /\ user_last_file_time = <<>>
    /\ extracted_data = <<>>
    /\ tasks = <<>>
    /\ now = 0

NoOutput == [kind |-> "none"]

ExportIdle ==
    /\ xpMode = "idle" /\ xpItems = <<>> /\ xpSaveOk = TRUE
    /\ xpOut = NoOutput /\ xpPhase = "idle"

NoMessage == [handler |-> "idle"]

AccessIdle ==
    /\ allowed_users_file = <<>> /\ allowed_user_ids_cache = {}
    /\ users_file = {} /\ db_users = {}
    /\ acStarted = {} /\ acLast = NoMessage

NoDocument == [reply |-> "idle"]

SessionIdle == user_quiz_batches = <<>> /\ fdLast = NoDocument

CollectIdle ==
    /\ forwarded = 0 /\ collected = <<>> /\ saved = <<>>
    /\ finishing = <<>> /\ exported = <<>>

AuxIdle == ExportIdle /\ AccessIdle /\ SessionIdle /\ CollectIdle

NormIdle == nText = <<>> /\ nOnce = <<>> /\ nTwice = <<>> /\ nPhase = 0

ExtractIdle ==
    exDoc = <<>> /\ exText = <<>> /\ exResult = NoResult /\ exPhase = "idle"

CodecIdle ==
    /\ cqQuiz = NoQuiz /\ cqNum = 0 /\ cqText = <<>>
    /\ cqResult = NoResult /\ cqPhase = "idle"

InitNorm ==
    /\ nText \in TextsUpTo(NormChars, MaxNormLen)
    /\ nOnce = <<>>
    /\ nTwice = <<>>
    /\ nPhase = 0
    /\ ExtractIdle
    /\ CodecIdle
    /\ BotIdle
    /\ AuxIdle

NormalizeOnce ==
    /\ nPhase = 0
    /\ nOnce' = CleanUpText(nText)
    /\ nPhase' = 1
    /\ UNCHANGED <<nText, nTwice>>
    /\ UNCHANGED <<extractVars, codecVars, botVars, auxVars>>

NormalizeTwice ==
    /\ nPhase = 1
    /\ nTwice' = CleanUpText(nOnce)
    /\ nPhase' = 2
    /\ UNCHANGED <<nText, nOnce>>
    /\ UNCHANGED <<extractVars, codecVars, botVars, auxVars>>

NextNorm == NormalizeOnce \/ NormalizeTwice

SpecNorm == InitNorm /\ [][NextNorm]_vars

\* C10: cleaning an already cleaned text changes nothing:
\* normalize(normalize(text)) = normalize(text) for every text.
C10_Idempotent == nPhase = 2 => nTwice = nOnce

----------------------------------------------------------------------------
(* SpecExtract: extract_questions_from_text applied to a text written from  *)
(* one or two blocks                                                        *)

Option(letter, sep, text) == [letter |-> letter, sep |-> sep, text |-> text]

Block(num, stem, opts, ans) == [num |-> num, stem |-> stem, opts |-> opts, ans |-> ans]

RECURSIVE RenderOptions(_, _)
RenderOptions(opts, k) ==
    IF k > Len(opts) THEN <<>>
    ELSE <<"\n", opts[k].letter, opts[k].sep, " ">> \o opts[k].text \o RenderOptions(opts, k + 1)

\* "<num>. <stem>", one line "<letter><sep> <text>" per option, "Answer: <letter>"
RenderBlock(b) ==
    (IF Len(b.num) > 0 THEN b.num \o <<".", " ">> ELSE <<>>) \o b.stem \o
    RenderOptions(b.opts, 1) \o
    (IF Len(b.ans) > 0 THEN <<"\n">> \o AnswerPrefix \o b.ans ELSE <<>>)

RECURSIVE RenderDoc(_, _, _)
RenderDoc(blocks, sep, k) ==
    IF k > Len(blocks) THEN <<>>
    ELSE (IF k > 1 THEN sep ELSE <<>>) \o RenderBlock(blocks[k]) \o RenderDoc(blocks, sep, k + 1)

TwoParen == <<Option("a", ")", <<"x">>), Option("b", ")", <<"y">>)>>

OptionLists ==
    {TwoParen,
     <<Option("b", ")", <<"x">>), Option("c", ")", <<"y">>)>>,
     <<Option("a", ")", <<"x">>), Option("B", ")", <<"y">>)>>,
     <<Option("b", ")", <<"y">>), Option("a", ")", <<"x">>)>>,
     <<Option("A", ")", <<"x">>), Option("B", ")", <<"y">>)>>,
     <<Option("a", ")", <<"x">>)>>,
     <<Option("a", ")", <<"x">>), Option("b", ")", <<"y">>), Option("c", ")", <<"z">>)>>,
     <<Option("a", ".", <<"x">>), Option("b", ".", <<"y">>)>>,
     <<Option("a", ".", <<"x", ")">>), Option("b", ".", <<"y">>)>>}

AnswerLetters == {<<>>, <<"a">>, <<"b">>, <<"c">>, <<"B">>}

SingleDocs ==
    {[blocks |-> <<Block(num, <<"Q">>, opts, ans)>>, sep |-> <<"\n">>] :
        num \in {<<>>, <<"1">>}, opts \in OptionLists, ans \in AnswerLetters}

FirstBlocks ==
    {Block(<<"1">>, <<"Q">>, TwoParen, <<"a">>),
     Block(<<"1">>, <<"Q">>, TwoParen, <<>>),
     Block(<<"1">>, <<"Q">>, TwoParen, <<"c">>),
     Block(<<>>, <<"P">>, <<>>, <<>>)}

SecondBlocks ==
    {Block(<<"2">>, <<"R">>, TwoParen, <<"b">>),
     Block(<<"2">>, <<"Q">>, TwoParen, <<"b">>),
     Block(<<"2">>, <<"R">>, TwoParen, <<>>),
     Block(<<"2">>, <<"R">>, TwoParen, <<"c">>),
     Block(<<>>, <<"R">>, TwoParen, <<"a">>),
     Block(<<"2">>, <<"R">>, <<Option("a", ")", <<"x">>)>>, <<"a">>)}

PairDocs ==
    {[blocks |-> <<b1, b2>>, sep |-> sep] :
        b1 \in FirstBlocks, b2 \in SecondBlocks, sep \in {<<"\n">>, <<"\n", "\n">>}}

\* two blocks whose stems differ in the number of spaces between the words only
SpacedDocs ==
    {[blocks |-> <<Block(<<"1">>, <<"Q", " ", " ", "R">>, TwoParen, <<"a">>),
                   Block(<<"2">>, <<"Q", " ", "R">>, TwoParen, <<"b">>)>>,
      sep |-> sep] : sep \in {<<"\n">>, <<"\n", "\n">>}}

\* a block with "a. b." options, then a block with "a) b)" options that a blank
\* line parts from each other
MixedDocs ==
    {[blocks |-> <<Block(<<"1">>, <<"Q">>,
                         <<Option("a", ".", <<"x">>), Option("b", ".", <<"y">>)>>, <<"a">>),
                   Block(<<"2">>, <<"R">>,
                         <<Option("a", ")", <<"u", "\n">>), Option("b", ")", <<"v">>)>>, <<"b">>)>>,
      sep |-> <<"\n", "\n">>]}

EmptyDocs == {[blocks |-> <<>>, sep |-> <<"\n">>]}

ExtractDocs == SingleDocs \cup PairDocs \cup SpacedDocs \cup MixedDocs \cup EmptyDocs

InitExtract ==
    /\ exDoc \in ExtractDocs
    /\ exText = RenderDoc(exDoc.blocks, exDoc.sep, 1)
    /\ exResult = NoResult
    /\ exPhase = "input"
    /\ NormIdle
    /\ CodecIdle
    /\ BotIdle
    /\ AuxIdle

Extract ==
    /\ exPhase = "input"
    /\ exResult' = extract_questions_from_text(exText)
    /\ exPhase' = "done"
    /\ UNCHANGED <<exDoc, exText, normVars, codecVars, botVars, auxVars>>

NextExtract == Extract

SpecExtract == InitExtract /\ [][NextExtract]_vars

\* C7: every question of a result has at least 2 options and a correct index
\* inside its option list, whichever tier produced it.
C7_QuestionsValid ==
    exPhase = "done" =>
        \A k \in 1..Len(exResult.questions) :
            LET q == exResult.questions[k]
            IN /\ Len(q.options) >= 2
               /\ 0 <= q.correct_option_id
               /\ q.correct_option_id < Len(q.options)

\* the options of block b whose letter is the answer letter, case ignored
Carriers(b) ==
    {k \in 1..Len(b.opts) : Len(b.ans) > 0 /\ ToLower(b.opts[k].letter) = ToLower(b.ans[1])}

\* C8: the correct index of an accepted question is the place, in the returned
\* options, of the option that carries the answer letter of the block (case
\* ignored), whatever letters the options carry; a block none of whose options
\* carries the answer letter gives no question.
C8_AnswerLetterMapped ==
    (exPhase = "done" /\ Len(exDoc.blocks) = 1) =>
        LET b == exDoc.blocks[1]
        IN /\ \A k \in 1..Len(exResult.questions) :
                LET q == exResult.questions[k]
                IN /\ q.correct_option_id + 1 \in 1..Len(q.options)
                   /\ \E c \in Carriers(b) :
                         q.options[q.correct_option_id + 1] = Strip(b.opts[c].text)
           /\ (Carriers(b) = {} => Len(exResult.questions) = 0)

\* a block "<n>. <stem>" with 2 or more option lines "a) ..", "b) .." lettered in
\* order and an answer line naming one of them
WellFormed(b) ==
    /\ Len(b.num) > 0
    /\ Len(b.opts) >= 2
    /\ \A k \in 1..Len(b.opts) : b.opts[k].sep = ")" /\ b.opts[k].letter = LetterOf(k - 1)
    /\ Carriers(b) # {}

\* a document of two well-formed blocks with the same stem
DuplicatePair ==
    /\ Len(exDoc.blocks) = 2
    /\ WellFormed(exDoc.blocks[1])
    /\ WellFormed(exDoc.blocks[2])
    /\ exDoc.blocks[1].stem = exDoc.blocks[2].stem

\* C11 (as stated): two valid blocks with the same stem give exactly one
\* question and exactly one entry on the skipped list, for the second block.
C11_DuplicateIsSkipRecord ==
    (exPhase = "done" /\ DuplicatePair) =>
        /\ Len(exResult.questions) = 1
        /\ exResult.skipped = <<exDoc.blocks[2].num>>

\* the text with every run of white space replaced by one space, ends stripped
RECURSIVE CollapseSpaces(_)
CollapseSpaces(s) ==
    IF s = <<>> THEN <<>>
    ELSE IF s[1] \notin Space THEN <<s[1]>> \o CollapseSpaces(Tail(s))
    ELSE IF Len(s) = 1 \/ s[2] \in Space THEN CollapseSpaces(Tail(s))
    ELSE <<" ">> \o CollapseSpaces(Tail(s))

NormalizedStem(stem) == CollapseSpaces(Strip(stem))

\* a document of two well-formed blocks whose stems differ in inner spacing only
SpacedPair ==
    /\ Len(exDoc.blocks) = 2
    /\ WellFormed(exDoc.blocks[1])
    /\ WellFormed(exDoc.blocks[2])
    /\ exDoc.blocks[1].stem # exDoc.blocks[2].stem
    /\ NormalizedStem(exDoc.blocks[1].stem) = NormalizedStem(exDoc.blocks[2].stem)

BlockPass == FlexibleApproach(CleanUpText(exText))

\* what the whole-document patterns make of the state the block-based pass left
AfterPatterns == ApplyPatterns(BlockPass, CleanUpText(exText), 1)

\* C13: the whole-document patterns run exactly when the block-based pass has
\* accepted no question; the questions of a result are those of the block-based
\* pass alone, or those of the patterns alone, never a mix of the two.
C13_OneTier ==
    exPhase = "done" =>
        IF Len(BlockPass.questions) > 0
        THEN /\ exResult.questions = BlockPass.questions
             /\ exResult.skipped = BlockPass.skipped_questions
        ELSE /\ exResult.questions = AfterPatterns.questions
             /\ exResult.skipped = AfterPatterns.skipped_questions

\* the block-based pass accepted a question and the patterns would have added another
C13_Witness ==
    /\ exPhase = "done"
    /\ Len(BlockPass.questions) > 0
    /\ Len(AfterPatterns.questions) > Len(BlockPass.questions)
    /\ exResult.questions = BlockPass.questions

\* the blocks the text extracted is split into
QuestionBlocks == ReSplit(RE_BlockSplit, CleanUpText(exText))

NonEmptyBlocks == {i \in 1..Len(QuestionBlocks) : Strip(QuestionBlocks[i]) # <<>>}

\* C14: every non-empty block of the split text ends as a question of the result
\* or as an entry of its skipped list, so the result holds at least as many
\* questions and skipped entries as the text has non-empty blocks.
C14_NoSilentDiscard ==
    exPhase = "done" =>
        Len(exResult.questions) + Len(exResult.skipped) >= Cardinality(NonEmptyBlocks)

\* the question a well-formed block stands for
QuestionOf(b) ==
    [question_num |-> b.num,
     question |-> b.stem,
     options |-> [k \in 1..Len(b.opts) |-> Strip(b.opts[k].text)],
     correct_option_id |-> (CHOOSE c \in Carriers(b) : TRUE) - 1]

\* block i of the document is well-formed and repeats the question id of no
\* earlier well-formed block
FreshWellFormed(i) ==
    /\ WellFormed(exDoc.blocks[i])
    /\ \A j \in 1..(i - 1) :
           WellFormed(exDoc.blocks[j]) =>
               QuestionId(exDoc.blocks[j].stem) # QuestionId(exDoc.blocks[i].stem)

\* the text extracted is split into the blocks the document was written from
SplitsAsWritten ==
    QuestionBlocks = [i \in 1..Len(exDoc.blocks) |-> RenderBlock(exDoc.blocks[i])]

\* C15: a block that is skipped or ignored does not stop the extraction of the
\* others: in a text that splits into its blocks, every well-formed block that
\* repeats no earlier question id is a question of the result, whether the other block
\* is well-formed or not and wherever it stands.
C15_SkipsAreBlockLocal ==
    (exPhase = "done" /\ SplitsAsWritten) =>
        \A i \in 1..Len(exDoc.blocks) :
            FreshWellFormed(i) =>
                \E k \in 1..Len(exResult.questions) :
                    exResult.questions[k] = QuestionOf(exDoc.blocks[i])

\* a skipped first block followed by a well-formed block that was accepted
C15_Witness ==
    /\ exPhase = "done"
    /\ Len(exDoc.blocks) = 2
    /\ SplitsAsWritten
    /\ ~WellFormed(exDoc.blocks[1])
    /\ exResult.skipped = <<exDoc.blocks[1].num>>
    /\ FreshWellFormed(2)
    /\ exResult.questions = <<QuestionOf(exDoc.blocks[2])>>

\* a block "<n>. <stem>" with 2 or more option lines "<letter>) <text>" and an
\* answer line naming the letter of one of them
HeaderOptionsAnswer(b) ==
    /\ Len(b.num) > 0
    /\ Len(b.opts) >= 2
    /\ \A k \in 1..Len(b.opts) : b.opts[k].sep = ")"
    /\ Carriers(b) # {}

\* C16: a text of one block "<n>. <stem>", 2 or more option lines
\* "<letter>) <text>" and "Answer: <letter>" naming one of the options gives
\* exactly one question, with the number n, the stem, the option texts in the
\* order of the text and the place of the named option as correct index, and
\* no skipped entry.
C16_SingleBlockAccepted ==
    (exPhase = "done" /\ Len(exDoc.blocks) = 1 /\ HeaderOptionsAnswer(exDoc.blocks[1])) =>
        /\ exResult.questions = <<QuestionOf(exDoc.blocks[1])>>
        /\ exResult.skipped = <<>>

\* a block with a header and 2 or more option lines "<letter>) <text>"
HeaderAndOptions(b) ==
    /\ Len(b.num) > 0
    /\ Len(b.opts) >= 2
    /\ \A k \in 1..Len(b.opts) : b.opts[k].sep = ")"

\* the questions of the result that carry the number and the stem of block b
QuestionsFrom(b) ==
    {k \in 1..Len(exResult.questions) :
        /\ exResult.questions[k].question_num = b.num
        /\ exResult.questions[k].question = b.stem}

\* the entries of the skipped list that carry the label
SkipsOf(label) == {k \in 1..Len(exResult.skipped) : exResult.skipped[k] = label}

\* C17: a block with a header and 2 or more options but no answer line gives no
\* question and exactly one entry of the skipped list, in the result the call
\* returns, after the whole-document patterns if they ran.
C17_NoAnswerLine ==
    (exPhase = "done" /\ SplitsAsWritten) =>
        \A i \in 1..Len(exDoc.blocks) :
            (HeaderAndOptions(exDoc.blocks[i]) /\ exDoc.blocks[i].ans = <<>>) =>
                /\ QuestionsFrom(exDoc.blocks[i]) = {}
                /\ Cardinality(SkipsOf(IntToText(i))) = 1

\* C18: a block whose answer letter is the letter of none of its options ends
\* on the skipped list and gives no question, whichever pass handles it.
C18_AnswerLetterNotFound ==
    (exPhase = "done" /\ SplitsAsWritten) =>
        \A i \in 1..Len(exDoc.blocks) :
            (/\ HeaderAndOptions(exDoc.blocks[i])
             /\ exDoc.blocks[i].ans # <<>>
             /\ Carriers(exDoc.blocks[i]) = {}) =>
                /\ QuestionsFrom(exDoc.blocks[i]) = {}
                /\ SkipsOf(exDoc.blocks[i].num) # {}

\* text ends with the characters of suffix
EndsIn(text, suffix) ==
    /\ Len(text) >= Len(suffix)
    /\ SubSeq(text, Len(text) - Len(suffix) + 1, Len(text)) = suffix

\* an option of question q ends with the text of an option of block b
Carries(q, b) ==
    \E m \in 1..Len(q.options) :
        \E k \in 1..Len(b.opts) : EndsIn(q.options[m], Strip(b.opts[k].text))

\* C22: the questions of a result stand in the order of the blocks they were
\* made from, whichever pass made them: each question can be given a block of
\* the document that holds one of its options, so that the blocks never go back.
C22_DocumentOrder ==
    exPhase = "done" =>
        \E f \in [1..Len(exResult.questions) -> 1..Len(exDoc.blocks)] :
            /\ \A k \in 1..Len(exResult.questions) :
                   Carries(exResult.questions[k], exDoc.blocks[f[k]])
            /\ \A j, k \in 1..Len(exResult.questions) : j < k => f[j] <= f[k]

----------------------------------------------------------------------------
(* SpecCodec: a quiz written by format_quiz_as_text and read back by        *)
(* extract_questions_from_text                                              *)

MaxQuizOptions == 3

QuizStems == {<<"Q">>, <<"Q", "?">>, <<"2", " ", "Q">>, <<"Q", " ", "2">>}

QuizOptionTexts == {<<"x">>, <<"y">>}

QuizOptionLists ==
    UNION {[1..n -> QuizOptionTexts] : n \in 2..MaxQuizOptions}

\* the quizzes Telegram can forward: a correct_option_id inside the options, or none
Quizzes ==
    {[question |-> stem, options |-> opts, correct_option_id |-> c] :
        stem \in QuizStems, opts \in QuizOptionLists, c \in -1..(MaxQuizOptions - 1)}

\* the quiz "Capital of France?" with the options Paris and Lyon, Paris correct
CapitalOfFrance ==
    [question |-> <<"C", "a", "p", "i", "t", "a", "l", " ", "o", "f", " ", "F", "r", "a", "n", "c", "e", "?">>,
     options |-> <<<<"P", "a", "r", "i", "s">>, <<"L", "y", "o", "n">>>>,
     correct_option_id |-> 0]

InitCodec ==
    /\ cqQuiz \in {q \in Quizzes : q.correct_option_id < Len(q.options)} \cup {CapitalOfFrance}
    /\ cqNum \in {0, 7}
    /\ cqText = <<>>
    /\ cqResult = NoResult
    /\ cqPhase = "input"
    /\ NormIdle
    /\ ExtractIdle
    /\ BotIdle
    /\ AuxIdle

Encode ==
    /\ cqPhase = "input"
    /\ cqText' = format_quiz_as_text(cqQuiz, cqNum)
    /\ cqPhase' = "encoded"
    /\ UNCHANGED <<cqQuiz, cqNum, cqResult, normVars, extractVars, botVars, auxVars>>

Decode ==
    /\ cqPhase = "encoded"
    /\ cqResult' = extract_questions_from_text(cqText)
    /\ cqPhase' = "decoded"
    /\ UNCHANGED <<cqQuiz, cqNum, cqText, normVars, extractVars, botVars, auxVars>>

NextCodec == Encode \/ Decode

SpecCodec == InitCodec /\ [][NextCodec]_vars

\* C9: round trip: the text written for a quiz with a non-empty stem, at least
\* 2 options and a correct index in range is read back as exactly one question
\* with the same stem, the same options in the same order and the same correct index.
C9_RoundTrip ==
    (cqPhase = "decoded" /\ cqQuiz.correct_option_id >= 0) =>
        /\ Len(cqResult.questions) = 1
        /\ cqResult.questions[1].question = cqQuiz.question
        /\ cqResult.questions[1].options = cqQuiz.options
        /\ cqResult.questions[1].correct_option_id = cqQuiz.correct_option_id

\* the lines of a text, split at every "\n"
RECURSIVE LinesOf(_)
LinesOf(text) ==
    IF \A k \in 1..Len(text) : text[k] # "\n" THEN <<text>>
    ELSE LET n == CHOOSE k \in 1..Len(text) :
                      text[k] = "\n" /\ \A j \in 1..(k - 1) : text[j] # "\n"
         IN <<SubSeq(text, 1, n - 1)>> \o LinesOf(SubSeq(text, n + 1, Len(text)))

LastLine(text) == LinesOf(text)[Len(LinesOf(text))]

\* the text the quiz of the state has been written as
Encoded == cqPhase \in {"encoded", "decoded"}

CapitalOfFranceText ==
    <<"C", "a", "p", "i", "t", "a", "l", " ", "o", "f", " ", "F", "r",
      "a", "n", "c", "e", "?", "\n", "a", ")", " ", "P", "a", "r", "i", "s",
      "\n", "b", ")", " ", "L", "y", "o", "n", "\n", "A", "n", "s", "w",
      "e", "r", ":", " ", "a", ")", " ", "P", "a", "r", "i", "s">>

\* C19: the text written for a quiz with a correct index is, line by line: the
\* stem, with "<n>. " in front only when a number is given; one line
\* "<letter>) <text>" per option in the order of the quiz, lettered from a; the
\* line "Answer: <letter>) <text>" of the option at the correct index.  The quiz
\* "Capital of France?" without number is written exactly as CapitalOfFranceText.
C19_EncodeFormat ==
    (Encoded /\ cqQuiz.correct_option_id >= 0) =>
        LET lines == LinesOf(cqText)
            n == Len(cqQuiz.options)
            c == cqQuiz.correct_option_id + 1
        IN /\ Len(lines) = n + 2
           /\ lines[1] = (IF cqNum = 0 THEN <<>> ELSE IntToText(cqNum) \o <<".", " ">>)
                             \o cqQuiz.question
           /\ \A k \in 1..n :
                 lines[k + 1] = <<LowerSeq[k], ")", " ">> \o cqQuiz.options[k]
           /\ lines[n + 2] = AnswerPrefix \o <<LowerSeq[c], ")", " ">> \o cqQuiz.options[c]
           /\ (cqQuiz = CapitalOfFrance /\ cqNum = 0) => cqText = CapitalOfFranceText

\* the quiz "Capital of France?" written without number
C19_Witness ==
    /\ cqPhase = "encoded"
    /\ cqQuiz = CapitalOfFrance
    /\ cqNum = 0
    /\ cqText = CapitalOfFranceText

\* C20: a quiz without correct index is written with the last line
\* "Answer: Not provided", after the same stem and option lines; the correct
\* index 0 counts as given and is written as option a.
C20_AnswerLine ==
    Encoded =>
        /\ cqQuiz.correct_option_id = -1 =>
               /\ LastLine(cqText) = AnswerPrefix \o NotProvided
               /\ Len(LinesOf(cqText)) = Len(cqQuiz.options) + 2
        /\ cqQuiz.correct_option_id = 0 =>
               LastLine(cqText) = AnswerPrefix \o <<"a", ")", " ">> \o cqQuiz.options[1]

\* a quiz whose correct index is 0, written with the answer line of option a
C20_Witness ==
    /\ cqPhase = "encoded"
    /\ cqQuiz.correct_option_id = 0
    /\ LastLine(cqText) = AnswerPrefix \o <<"a", ")", " ">> \o cqQuiz.options[1]

----------------------------------------------------------------------------
(* extract_text_from_file *)

\* ' +'
RE_Spaces == Plus(Chr(" "))

\* \n\s*\n
RE_BlankLines == Cat(<<Chr("\n"), Star(Set(Space)), Chr("\n")>>)

\* the text of the pages of a PDF, each page cleaned and followed by a blank line
RECURSIVE extract_text_from_pdf(_, _)
extract_text_from_pdf(pages, k) ==
    IF k > Len(pages) THEN <<>>
    ELSE With(ReSub(RE_BlankLines, <<"\n", "\n">>, ReSub(RE_Spaces, <<" ">>, pages[k])),
              LAMBDA page_text :
                page_text \o <<"\n", "\n">> \o extract_text_from_pdf(pages, k + 1))

\* str.lower() on ASCII text
LowerText(s) == [k \in 1..Len(s) |-> ToLower(s[k])]

\* str.endswith
EndsWith(s, suffix) ==
    Len(s) >= Len(suffix) /\ SubSeq(s, Len(s) - Len(suffix) + 1, Len(s)) = suffix

DotPdf == <<".", "p", "d", "f">>

DotTxt == <<".", "t", "x", "t">>

\* a file is (name, content): the text of a text file, the page texts of a PDF
extract_text_from_file(file) ==
    IF EndsWith(LowerText(file.name), DotPdf)
    THEN extract_text_from_pdf(file.content, 1)
    ELSE file.content

----------------------------------------------------------------------------
(* send_telegram_quizzes *)

\* ^\d+\.\s
RE_LeadingNumber == Cat(<<Bol, Plus(Set(Digit)), Chr("."), Set(Space)>>)

NumberPrefix(i) == IntToText(i) \o <<".", " ">>

\* the sequential number put in front of the stem whatever the stem starts with
numbered_question_prefixed(i, original_question) == NumberPrefix(i) \o original_question

\* numbered_question: the stem with the sequential number in front, in place of
\* a number the stem already starts with
numbered_question(i, original_question) ==
    IF ~ReMatch(RE_LeadingNumber, original_question).ok
    THEN NumberPrefix(i) \o original_question
    ELSE ReSub(RE_LeadingNumber, NumberPrefix(i), original_question)

\* enumerate(questions): counting from 0
EnumerateFromZero == 1 - 1

\* the first number enumerate(questions, 1) gives
EnumerateStart == 1

\* the local state of one call, inside the handle_file task that makes it
NewTask(user, chat, file) ==
    [user |-> user, chat |-> chat, file |-> file, pc |-> "download",
     reply |-> [kind |-> "processing", detail |-> <<>>],
     questions |-> <<>>, i |-> EnumerateStart,
     sent_count |-> 0, error_count |-> 0, failed_questions |-> <<>>,
     polls |-> <<>>, before |-> 0]

\* the place in `questions` of the q that enumerate pairs with i
CurrentIndex(t) == t.i - EnumerateStart + 1

\* a number that only successful sends advance
LoopIndexBySent(t) == t.sent_count + EnumerateStart

\* the i of the loop
LoopIndex(t) == t.i

\* what follows one turn of the loop: the next turn, or the return
AfterTurn(t) ==
    [t EXCEPT !.i = @ + 1,
              !.pc = IF CurrentIndex(t) >= Len(t.questions) THEN "reply" ELSE "send"]

\* the poll send_poll was asked to send: the question shown, and which q it was made from
Poll(t, ok) ==
    [question |-> numbered_question(LoopIndex(t), t.questions[CurrentIndex(t)].question),
     source |-> CurrentIndex(t), ok |-> ok]

\* send_poll returned: count it and pause
SendOk(t) ==
    [t EXCEPT !.polls = Append(@, Poll(t, TRUE)),
              !.sent_count = @ + 1,
              !.pc = "sleep"]

\* send_poll raised and the exception leaves the loop
SendFailedAborts(t) ==
    [t EXCEPT !.polls = Append(@, Poll(t, FALSE)),
              !.error_count = @ + 1,
              !.failed_questions = Append(@, t.questions[CurrentIndex(t)].question_num),
              !.pc = "reply"]

\* send_poll raised and the same q is sent again
SendFailedRetries(t) ==
    [t EXCEPT !.polls = Append(@, Poll(t, FALSE)),
              !.error_count = @ + 1,
              !.failed_questions = Append(@, t.questions[CurrentIndex(t)].question_num)]

\* send_poll raised and the number shown is kept in place of the label of q
SendFailedKeepsNumber(t) ==
    AfterTurn([t EXCEPT !.polls = Append(@, Poll(t, FALSE)),
                        !.error_count = @ + 1,
                        !.failed_questions = Append(@, IntToText(LoopIndex(t)))])

\* send_poll raised: count it, keep the label of q, go on with the next q
SendFailed(t) ==
    AfterTurn([t EXCEPT !.polls = Append(@, Poll(t, FALSE)),
                        !.error_count = @ + 1,
                        !.failed_questions =
                            Append(@, t.questions[CurrentIndex(t)].question_num)])

\* asyncio.sleep(0.5) returned
Slept(t) == AfterTurn(t)

----------------------------------------------------------------------------
(* handlers.py: the session layer around handle_file *)

IDLE == "idle"
WAITING_FOR_FILE == "waiting_for_file"
EXTRACTING_QUIZZES == "extracting_quizzes"
COLLECTING_FORWARDED_QUIZZES == "collecting_forwarded_quizzes"

MIN_INTERVAL_BETWEEN_FILES == 60

\* d[k] = v on a dict
Put(d, k, v) == [x \in (DOMAIN d) \cup {k} |-> IF x = k THEN v ELSE d[x]]

\* del d[k] on a dict
Del(d, k) == [x \in (DOMAIN d) \ {k} |-> d[x]]

Reply(kind, detail) == [kind |-> kind, detail |-> detail]

\* the users AccessControlMiddleware lets through
Users == {101, 102}

\* users write to the bot in their private chats, whose id is the user's
ChatsOf(u) == {u}

ThreeQuestions ==
    <<Block(<<"7">>, <<"Q">>, TwoParen, <<"a">>),
      Block(<<"8">>, <<"2", ".", " ", "R">>, TwoParen, <<"b">>),
      Block(<<"9">>, <<"S">>, TwoParen, <<"a">>),
      Block(<<"1", "0">>, <<"T">>, TwoParen, <<"c">>)>>

FourQuestions ==
    <<Block(<<"1">>, <<"P">>, TwoParen, <<"a">>),
      Block(<<"2">>, <<"Q">>, TwoParen, <<"b">>),
      Block(<<"3">>, <<"R">>, TwoParen, <<"a">>),
      Block(<<"4">>, <<"S">>, TwoParen, <<"b">>)>>

\* the documents users upload
Files ==
    <<[name |-> <<"n", ".", "D", "O", "C">>, content |-> <<"Q">>],
      [name |-> <<"b", ".", "t", "x", "t">>, content |-> <<" ", "\n">>],
      [name |-> <<"p", ".", "t", "x", "t">>, content |-> <<"h", "i">>],
      [name |-> <<"t", ".", "T", "X", "T">>,
       content |-> RenderDoc(ThreeQuestions, <<"\n", "\n">>, 1)],
      [name |-> <<"f", ".", "p", "d", "f">>,
       content |-> <<RenderDoc(FourQuestions, <<"\n", " ", " ", "\n">>, 1)>>]>>

\* text = await extract_text_from_file(temp_path), for each of the documents
FileText == [f \in 1..Len(Files) |-> extract_text_from_file(Files[f])]

\* extract_questions_from_text(text), for each of the documents
FileQuestions == [f \in 1..Len(Files) |-> extract_questions_from_text(FileText[f])]

\* a set of seen ids kept over the calls: the questions of file f whose id no
\* earlier call has accepted
CallResultSharedSeen(ts, f) ==
    [questions |-> SelectSeq(FileQuestions[f].questions,
                             LAMBDA q : \A n \in 1..Len(ts) :
                                 \A k \in 1..Len(ts[n].questions) :
                                     QuestionId(ts[n].questions[k].question) # QuestionId(q.question)),
     skipped |-> FileQuestions[f].skipped]

\* questions, skipped = extract_questions_from_text(text): the call starts from
\* its own empty lists and set (lines 88-90), whatever other calls ts have done
CallResult(ts, f) == FileQuestions[f]

MaxTasks == 2

MaxFailures == 1

MaxTicks == 1

\* the number of polls send_telegram_quizzes has so far asked Telegram to send to chat
RECURSIVE PollsTo(_, _, _)
PollsTo(ts, chat, n) ==
    IF n > Len(ts) THEN 0
    ELSE (IF ts[n].chat = chat THEN Len(ts[n].polls) ELSE 0) + PollsTo(ts, chat, n + 1)

RECURSIVE Failures(_, _)
Failures(ts, n) == IF n > Len(ts) THEN 0 ELSE ts[n].error_count + Failures(ts, n + 1)

Init ==
    /\ user_states = <<>>
    /\ user_last_file_time = <<>>
    /\ extracted_data = <<>>
    /\ tasks = <<>>
    /\ now = 0
    /\ NormIdle
    /\ ExtractIdle
    /\ CodecIdle
    /\ AuxIdle

\* the "Create Quiz" button
handle_create_quiz_button(u) ==
    /\ user_states' = Put(user_states, u, WAITING_FOR_FILE)
    /\ UNCHANGED <<user_last_file_time, extracted_data, tasks, now, harnessVars>>

\* the "cancel_processing" callback; its button is under a result message (line
\* 247), which u has to see to press it
cancel_processing_callback(u) ==
    /\ \E n \in 1..Len(tasks) : tasks[n].reply.kind = "result" /\ tasks[n].chat \in ChatsOf(u)
    /\ extracted_data' = Del(extracted_data, u)
    /\ user_states' = Put(user_states, u, IDLE)
    /\ UNCHANGED <<user_last_file_time, tasks, now, harnessVars>>

\* the state check of handle_file, passed by a user who collects forwarded quizzes too
in_correct_state_or_collecting(u, states) ==
    u \in DOMAIN states /\ states[u] \in {WAITING_FOR_FILE, COLLECTING_FORWARDED_QUIZZES}

\* the state check of handle_file (line 163), TRUE when the handler goes on
in_correct_state(u, states) == u \in DOMAIN states /\ states[u] = WAITING_FOR_FILE

\* the rate limit of handle_file, with no file ever refused
rate_limited_never(u, times, current_time) == FALSE

\* the rate limit of handle_file (lines 166-171), TRUE when the file is refused
rate_limited(u, times, current_time) ==
    u \in DOMAIN times /\ current_time - times[u] < MIN_INTERVAL_BETWEEN_FILES

\* handle_file, from the arrival of the document to its first await that leads on
\* (lines 159-181): state check, rate limit, file type, "Processing file...".
\* The replies "Please wait" and "only PDF or text files" end the handler and
\* change nothing the program keeps.
handle_file_start(u, chat, f) ==
    LET file_name == LowerText(Files[f].name)
    IN IF ~in_correct_state(u, user_states)
       THEN UNCHANGED botVars
       ELSE IF rate_limited(u, user_last_file_time, now)
       THEN UNCHANGED botVars
       ELSE /\ user_last_file_time' = Put(user_last_file_time, u, now)
            /\ IF ~(EndsWith(file_name, DotPdf) \/ EndsWith(file_name, DotTxt))
               THEN UNCHANGED tasks
               ELSE /\ Len(tasks) < MaxTasks
                    /\ tasks' = Append(tasks, NewTask(u, chat, f))
            /\ UNCHANGED <<user_states, extracted_data, now>>

handle_file(u, chat, f) == handle_file_start(u, chat, f) /\ UNCHANGED harnessVars

\* the extracted data stored in a dict made anew at every upload
StoreExtractedAnew(data, u, extracted) == Put(<<>>, u, extracted)

\* user_states['extracted_data'][user_id] = {...} in the dict that is made once (lines 215-222)
StoreExtracted(data, u, extracted) == Put(data, u, extracted)

\* handle_file goes on (lines 183-225): download, text, questions, extracted_data,
\* and the call of send_telegram_quizzes up to its first send_poll
handle_file_extract(n) ==
    LET t == tasks[n]
    IN /\ t.pc = "download"
       /\ \E text \in {FileText[t.file]} : \E extracted \in {CallResult(tasks, t.file)} :
            IF Strip(text) = <<>>
            THEN /\ tasks' = [tasks EXCEPT ![n] = [t EXCEPT !.pc = "stopped",
                                                            !.reply = Reply("no_text", <<>>)]]
                 /\ UNCHANGED extracted_data
            ELSE IF Len(extracted.questions) = 0
            THEN /\ tasks' = [tasks EXCEPT ![n] = [t EXCEPT !.pc = "stopped",
                                                            !.reply = Reply("no_questions", <<>>)]]
                 /\ UNCHANGED extracted_data
            ELSE /\ extracted_data' = StoreExtracted(extracted_data, t.user, extracted)
                 /\ tasks' = [tasks EXCEPT ![n] = [t EXCEPT !.pc = "send",
                                                            !.questions = extracted.questions,
                                                            !.before = PollsTo(tasks, t.chat, 1)]]
       /\ UNCHANGED <<user_states, user_last_file_time, now, harnessVars>>

\* await bot.send_poll(...) ends: it returns, or it raises
send_poll(n) ==
    /\ tasks[n].pc = "send"
    /\ \E ok \in BOOLEAN :
          /\ ok \/ Failures(tasks, 1) < MaxFailures
          /\ tasks' = [tasks EXCEPT ![n] = IF ok THEN SendOk(@) ELSE SendFailed(@)]
    /\ UNCHANGED <<user_states, user_last_file_time, extracted_data, now, harnessVars>>

\* await asyncio.sleep(0.5) ends
pacing_delay(n) ==
    /\ tasks[n].pc = "sleep"
    /\ tasks' = [tasks EXCEPT ![n] = Slept(@)]
    /\ UNCHANGED <<user_states, user_last_file_time, extracted_data, now, harnessVars>>

\* handle_file after send_telegram_quizzes returned (lines 227-247): the result message
handle_file_result(n) ==
    LET t == tasks[n]
    IN /\ t.pc = "reply"
       /\ \E skipped \in {FileQuestions[t.file].skipped} :
            tasks' = [tasks EXCEPT ![n] = [t EXCEPT
              !.pc = "setstate",
              !.reply = Reply("result",
                              [extracted |-> Len(t.questions),
                               sent |-> t.sent_count,
                               failed |-> t.error_count,
                               failed_questions |-> t.failed_questions,
                               skipped |-> Take(skipped, 5),
                               more |-> IF Len(skipped) > 5 THEN Len(skipped) - 5 ELSE 0])]]
       /\ UNCHANGED <<user_states, user_last_file_time, extracted_data, now, harnessVars>>

\* handle_file after the result message was sent (line 250)
handle_file_state(n) ==
    /\ tasks[n].pc = "setstate"
    /\ user_states' = Put(user_states, tasks[n].user, EXTRACTING_QUIZZES)
    /\ tasks' = [tasks EXCEPT ![n].pc = "done"]
    /\ UNCHANGED <<user_last_file_time, extracted_data, now, harnessVars>>

\* time passes
Tick ==
    /\ now < MaxTicks * MIN_INTERVAL_BETWEEN_FILES
    /\ now' = now + MIN_INTERVAL_BETWEEN_FILES
    /\ UNCHANGED <<user_states, user_last_file_time, extracted_data, tasks, harnessVars>>

Next ==
    \/ \E u \in Users : handle_create_quiz_button(u)
    \/ \E u \in Users : cancel_processing_callback(u)
    \/ \E u \in Users : \E chat \in ChatsOf(u) : \E f \in 1..Len(Files) : handle_file(u, chat, f)
    \/ \E n \in 1..Len(tasks) : handle_file_extract(n)
    \/ \E n \in 1..Len(tasks) : send_poll(n)
    \/ \E n \in 1..Len(tasks) : pacing_delay(n)
    \/ \E n \in 1..Len(tasks) : handle_file_result(n)
    \/ \E n \in 1..Len(tasks) : handle_file_state(n)
    \/ Tick

Spec == Init /\ [][Next]_vars

----------------------------------------------------------------------------
(* The dispatcher: what the polls of a call show *)

RECURSIVE TextToInt(_)
TextToInt(s) ==
    IF Len(s) = 0 THEN 0
    ELSE TextToInt(SubSeq(s, 1, Len(s) - 1)) * 10 + (IndexIn(s[Len(s)], DigitSeq) - 1)

\* the number a poll shows in front of its question
DisplayNumber(poll) ==
    TextToInt(SubSeq(poll.question, 1, RunEnd(Set(Digit), poll.question, 1) - 1))

DisplayNumbers(t) == [k \in 1..Len(t.polls) |-> DisplayNumber(t.polls[k])]

\* send_telegram_quizzes has returned in task t
Returned(t) == t.pc \in {"reply", "setstate", "done"}

\* send_telegram_quizzes is running in task t
Dispatching(t) == t.pc \in {"send", "sleep"}

TaskIds == 1..Len(tasks)

\* the value a per-destination counter would have when the call of task t began
CounterBefore(t) == t.before + 1

\* the labels of the questions whose poll failed, in the order of `questions`
RECURSIVE FailedLabels(_, _)
FailedLabels(t, q) ==
    IF q > Len(t.questions) THEN <<>>
    ELSE (IF \E k \in 1..Len(t.polls) : t.polls[k].source = q /\ ~t.polls[k].ok
          THEN <<t.questions[q].question_num>> ELSE <<>>) \o FailedLabels(t, q + 1)

C3_EachQuestionOnce ==
    \A n \in TaskIds :
        \A q \in 1..Len(tasks[n].questions) :
            LET attempts == {k \in 1..Len(tasks[n].polls) : tasks[n].polls[k].source = q}
            IN /\ Cardinality(attempts) <= 1
               /\ Returned(tasks[n]) => Cardinality(attempts) = 1

C3_Witness ==
    \E n \in TaskIds :
        /\ Returned(tasks[n])
        /\ Len(tasks[n].polls) >= 3
        /\ ~tasks[n].polls[1].ok

C5_OrderedAndIncreasing ==
    \A n \in TaskIds :
        \A j, k \in 1..Len(tasks[n].polls) :
            j < k => /\ tasks[n].polls[j].source < tasks[n].polls[k].source
                     /\ DisplayNumber(tasks[n].polls[j]) < DisplayNumber(tasks[n].polls[k])

C5_Witness ==
    \E n \in TaskIds :
        /\ Len(tasks[n].polls) >= 3
        /\ tasks[n].polls[1].ok
        /\ ~tasks[n].polls[2].ok

\* C6: the session layer serialises the calls for one destination: at no time
\* are two calls of send_telegram_quizzes for the same chat in progress.
C6_OneCallPerChat ==
    \A m, n \in TaskIds :
        (m # n /\ Dispatching(tasks[m]) /\ Dispatching(tasks[n]))
            => tasks[m].chat # tasks[n].chat

\* the stem without the "<digits>. " it starts with, if it starts with one
WithoutLeadingNumber(stem) ==
    LET e == RunEnd(Set(Digit), stem, 1)
    IN IF e > 1 /\ e + 1 <= Len(stem) /\ stem[e] = "." /\ stem[e + 1] \in Space
       THEN SubSeq(stem, e + 2, Len(stem))
       ELSE stem

BlankTexts == {<<>>, <<" ">>, <<"\n">>, <<" ", "\n">>, <<"\n", "\n", "\n">>, <<"\r", "\n", "\t">>}

\* extract_questions_from_text of each of them
BlankResults == [text \in BlankTexts |-> extract_questions_from_text(text)]

NothingFound == [questions |-> <<>>, skipped |-> <<>>]

\* C23: a text that is empty or white space only is extracted as no question and
\* no skipped entry; the handler of a document with such a text, or with a text
\* no question is found in, ends with its reply for that case and sends no poll.
C23_EmptyTextIsNoError ==
    /\ \A text \in BlankTexts : BlankResults[text] = NothingFound
    /\ \A n \in TaskIds :
          LET t == tasks[n]
          IN /\ Strip(FileText[t.file]) = <<>> =>
                   /\ FileQuestions[t.file] = NothingFound
                   /\ t.pc \in {"download", "stopped"}
                   /\ t.pc = "stopped" => t.reply.kind = "no_text"
                   /\ t.polls = <<>>
             /\ (Strip(FileText[t.file]) # <<>> /\ FileQuestions[t.file].questions = <<>>) =>
                   /\ t.pc \in {"download", "stopped"}
                   /\ t.pc = "stopped" => t.reply.kind = "no_questions"
                   /\ t.polls = <<>>

\* a handler of a document of white space only has ended
C23_Witness ==
    \E n \in TaskIds :
        /\ FileText[tasks[n].file] \in BlankTexts
        /\ tasks[n].pc = "stopped"
        /\ tasks[n].reply.kind = "no_text"
        /\ tasks[n].polls = <<>>

\* the handler of task t has called extract_questions_from_text and gone on
Extracted(t) == t.pc \notin {"download", "stopped"}

----------------------------------------------------------------------------
(* SpecExport: finish_extraction_callback and show_questions_callback, from *)
(* the texts of the questions to the reply                                  *)

\* the length of message_text above which the text is not sent in one message
MAX_INLINE_LENGTH == 4000

\* question_text of show_questions_callback for the i-th extracted question
show_question_text(q, i) ==
    NumberPrefix(i) \o q.question \o <<"\n">> \o OptionLines(q.options, 1) \o
    AnswerPrefix \o <<LetterOf(q.correct_option_id), ")", " ">> \o
    q.options[q.correct_option_id + 1]

\* formatted_quizzes / formatted_questions: one text per item, numbered from 1
formatted_quizzes(mode, items) ==
    [i \in 1..Len(items) |->
        IF mode = "finish" THEN format_quiz_as_text(items[i], i)
        ELSE show_question_text(items[i], i)]

\* '\n\n'.join(...)
JoinBlank(texts) == Join(texts, <<"\n", "\n">>)

\* [message_text[i:i+4000] for i in range(0, len(message_text), 4000)]
RECURSIVE Parts(_)
Parts(message_text) ==
    IF Len(message_text) <= MAX_INLINE_LENGTH THEN <<message_text>>
    ELSE <<SubSeq(message_text, 1, MAX_INLINE_LENGTH)>>
         \o Parts(SubSeq(message_text, MAX_INLINE_LENGTH + 1, Len(message_text)))

\* the text goes out as a document from MAX_INLINE_LENGTH characters on
ExportReplyFromLimit(texts, save_ok) ==
    IF Len(JoinBlank(texts)) >= MAX_INLINE_LENGTH
    THEN IF save_ok
         THEN [kind |-> "document", file |-> JoinBlank(texts)]
         ELSE [kind |-> "parts", parts |-> Parts(JoinBlank(texts))]
    ELSE [kind |-> "message", text |-> JoinBlank(texts)]

\* the reply of the two callbacks (lines 337-358, 399-419): the file written by
\* save_questions_to_file as a document, or the text in parts when the file
\* cannot be written, or the text in one message after the summary
ExportReply(texts, save_ok) ==
    IF Len(JoinBlank(texts)) > MAX_INLINE_LENGTH
    THEN IF save_ok
         THEN [kind |-> "document", file |-> JoinBlank(texts)]
         ELSE [kind |-> "parts", parts |-> Parts(JoinBlank(texts))]
    ELSE [kind |-> "message", text |-> JoinBlank(texts)]

MaxBatch == 2

\* a stem of n characters
Filler(n) == [k \in 1..n |-> "x"]

ExportItem(n, c) ==
    [question |-> Filler(n), options |-> <<<<"x">>, <<"y">>>>, correct_option_id |-> c]

\* the characters a text has besides its stem, for the items above
Overhead == Len(format_quiz_as_text(ExportItem(0, 0), 1))

\* the stem with which one text is exactly MAX_INLINE_LENGTH characters long
FullStem == MAX_INLINE_LENGTH - Overhead

\* two stems of this length give two texts that are joined to exactly MAX_INLINE_LENGTH
\* characters when the limit is even
HalfStem == (MAX_INLINE_LENGTH - 2 - 2 * Overhead) \div 2

StemLengths == {1, HalfStem - 1, HalfStem, HalfStem + 1, FullStem - 1, FullStem, FullStem + 1}

\* the batches of forwarded quizzes (some without correct_option_id), and the
\* lists of extracted questions
ExportBatches(mode) ==
    UNION {[1..n -> {ExportItem(len, c) : len \in StemLengths,
                                          c \in IF mode = "finish" THEN {-1, 0} ELSE {0}}] :
           n \in 1..MaxBatch}

InitExport ==
    /\ xpMode \in {"finish", "show"}
    /\ xpItems \in ExportBatches(xpMode)
    /\ xpSaveOk \in BOOLEAN
    /\ xpOut = NoOutput
    /\ xpPhase = "input"
    /\ NormIdle
    /\ ExtractIdle
    /\ CodecIdle
    /\ BotIdle
    /\ AccessIdle
    /\ SessionIdle
    /\ CollectIdle

\* finish_extraction_callback with a batch that holds quizzes
finish_extraction_callback ==
    /\ xpPhase = "input"
    /\ xpMode = "finish"
    /\ \E texts \in {formatted_quizzes(xpMode, xpItems)} :
          xpOut' = ExportReply(texts, xpSaveOk)
    /\ xpPhase' = "done"
    /\ UNCHANGED <<xpMode, xpItems, xpSaveOk, normVars, extractVars, codecVars, botVars, accessVars, sessionVars, collectVars>>

\* show_questions_callback with extracted questions in user_states['extracted_data']
show_questions_callback ==
    /\ xpPhase = "input"
    /\ xpMode = "show"
    /\ \E texts \in {formatted_quizzes(xpMode, xpItems)} :
          xpOut' = ExportReply(texts, xpSaveOk)
    /\ xpPhase' = "done"
    /\ UNCHANGED <<xpMode, xpItems, xpSaveOk, normVars, extractVars, codecVars, botVars, accessVars, sessionVars, collectVars>>

NextExport == finish_extraction_callback \/ show_questions_callback

SpecExport == InitExport /\ [][NextExport]_vars

\* the texts of the items, each written as format_quiz_as_text writes it
CanonicalTexts == [i \in 1..Len(xpItems) |-> format_quiz_as_text(xpItems[i], i)]

\* the texts with a blank line between one and the next
RECURSIVE JoinedByBlankLine(_, _)
JoinedByBlankLine(texts, k) ==
    IF k > Len(texts) THEN <<>>
    ELSE (IF k > 1 THEN <<"\n", "\n">> ELSE <<>>) \o texts[k] \o JoinedByBlankLine(texts, k + 1)

\* C25 (as stated): the output is the texts of the items joined by a blank
\* line; it is a document exactly when the joined text is longer than
\* MAX_INLINE_LENGTH characters and one message otherwise, in either callback.
C25_AttachmentIffTooLong ==
    xpPhase = "done" =>
        LET joined == JoinedByBlankLine(CanonicalTexts, 1)
        IN IF Len(joined) > MAX_INLINE_LENGTH
           THEN xpOut.kind = "document" /\ xpOut.file = joined
           ELSE xpOut.kind = "message" /\ xpOut.text = joined

\* C25 (amended): the output is the texts of the items joined by a blank line;
\* a joined text of at most MAX_INLINE_LENGTH characters is one message; a longer
\* one is a document when the file can be written, and otherwise goes out in
\* messages of at most MAX_INLINE_LENGTH characters each that make up the joined
\* text; the same in either callback.
C25_AttachmentOrParts ==
    xpPhase = "done" =>
        LET joined == JoinedByBlankLine(CanonicalTexts, 1)
        IN IF Len(joined) <= MAX_INLINE_LENGTH
           THEN xpOut.kind = "message" /\ xpOut.text = joined
           ELSE IF xpSaveOk
           THEN xpOut.kind = "document" /\ xpOut.file = joined
           ELSE /\ xpOut.kind = "parts"
                /\ Len(xpOut.parts) >= 2
                /\ \A k \in 1..Len(xpOut.parts) : Len(xpOut.parts[k]) <= MAX_INLINE_LENGTH
                /\ Join(xpOut.parts, <<>>) = joined

\* a joined text one character over the limit, sent as a document
C25_Witness ==
    /\ xpPhase = "done"
    /\ Len(JoinedByBlankLine(CanonicalTexts, 1)) = MAX_INLINE_LENGTH + 1
    /\ xpSaveOk
    /\ xpOut.kind = "document"


----------------------------------------------------------------------------
(* Access control: AccessControlMiddleware and the admin commands of       *)
(* handlers_admin.py, the user files of filedb.py, the users table of      *)
(* db.py.  A message is its sender, its text and whether it carries a      *)
(* document; a document message has no text.  The middleware is called    *)
(* with the handler the dispatcher chose for the message.                  *)

ADMIN_IDS == {900}

Senders == {900, 101, 102}

SlashStart == <<"/", "s", "t", "a", "r", "t">>

SlashHelp == <<"/", "h", "e", "l", "p">>

SlashAllowUser == <<"/", "a", "l", "l", "o", "w", "_", "u", "s", "e", "r">>

SlashRemoveUser == <<"/", "r", "e", "m", "o", "v", "e", "u", "s", "e", "r">>

SlashListUsers == <<"/", "l", "i", "s", "t", "u", "s", "e", "r", "s">>

SlashMyAccess == <<"/", "m", "y", "a", "c", "c", "e", "s", "s">>

\* the arguments written after the commands of the model's messages
CommandArgs == {<<"1", "0", "1">>, <<"1", "0", "2">>, <<"x">>}

AccessTexts ==
    {SlashStart, SlashHelp, SlashListUsers, SlashMyAccess, <<"h", "i">>,
     SlashAllowUser, SlashRemoveUser}
    \cup {SlashAllowUser \o <<" ">> \o a : a \in CommandArgs}
    \cup {SlashRemoveUser \o <<" ">> \o a : a \in CommandArgs}

Messages ==
    [from_user : Senders, text : AccessTexts, document : {FALSE}]
    \cup [from_user : Senders, text : {<<>>}, document : {TRUE}]

\* str.startswith
startswith(text, prefix) ==
    Len(text) >= Len(prefix) /\ SubSeq(text, 1, Len(prefix)) = prefix

\* the command word of a text: the text up to its first space
CommandWord(text) ==
    IF \E i \in 1..Len(text) : text[i] = " "
    THEN SubSeq(text, 1, (CHOOSE i \in 1..Len(text) :
                            text[i] = " " /\ \A j \in 1..(i - 1) : text[j] # " ") - 1)
    ELSE text

\* CommandObject.args: what follows the command word and the space (empty for None)
CommandArgsOf(text) ==
    IF Len(CommandWord(text)) < Len(text)
    THEN SubSeq(text, Len(CommandWord(text)) + 2, Len(text))
    ELSE <<>>

\* int(s) of a stripped text: the decimal value of a run of digits
RECURSIVE DecimalValue(_)
DecimalValue(s) ==
    IF s = <<>> THEN 0
    ELSE 10 * DecimalValue(SubSeq(s, 1, Len(s) - 1)) + (IndexIn(s[Len(s)], DigitSeq) - 1)

\* whether int(s) returns rather than raises ValueError
is_int(s) == s # <<>> /\ \A i \in 1..Len(s) : s[i] \in Digit

int(s) == DecimalValue(s)

\* the handlers of dp.message in the order of their registration; the first
\* whose filter accepts the message is the one the dispatcher chooses
Route(m) ==
    IF ~m.document /\ CommandWord(m.text) = SlashStart THEN "start_command"
    ELSE IF ~m.document /\ CommandWord(m.text) = SlashHelp THEN "help_command"
    ELSE IF m.document THEN "handle_file"
    ELSE IF m.text # <<>> /\ ~startswith(m.text, <<"/">>) THEN "handle_text_message"
    ELSE IF CommandWord(m.text) = SlashAllowUser THEN "allow_user_command"
    ELSE IF CommandWord(m.text) = SlashRemoveUser THEN "removeuser_command"
    ELSE IF CommandWord(m.text) = SlashListUsers THEN "listusers_command"
    ELSE IF CommandWord(m.text) = SlashMyAccess THEN "myaccess_command"
    ELSE "none"

ExemptPrefixes == {SlashStart, SlashHelp, SlashAllowUser, SlashRemoveUser, SlashListUsers}

is_user_allowed(user_id, cache) == user_id \in cache

\* AccessControlMiddleware.__call__ without the prefix test
AccessControlMiddlewareBySender(m, cache) ==
    \/ m.from_user \in ADMIN_IDS
    \/ (m.from_user # 0 /\ is_user_allowed(m.from_user, cache))

\* AccessControlMiddleware.__call__: TRUE when it calls the handler
AccessControlMiddleware(m, cache) ==
    \/ (m.text # <<>> /\ \E p \in ExemptPrefixes : startswith(m.text, p))
    \/ m.from_user \in ADMIN_IDS
    \/ (m.from_user # 0 /\ is_user_allowed(m.from_user, cache))

NotAuthorized == "You are not authorized to use this bot."

\* the ids of the sequence of entries
IdsOf(file) == {file[i] : i \in 1..Len(file)}

\* what the update leaves in acLast
Update(m, handler, reply) ==
    [sender |-> m.from_user, text |-> m.text, document |-> m.document,
     handler |-> handler, reply |-> reply,
     file_before |-> allowed_users_file, cache_before |-> allowed_user_ids_cache]

\* the middleware's refusal: no handler runs
Refused(m) ==
    /\ acLast' = Update(m, "none", NotAuthorized)
    /\ UNCHANGED <<allowed_users_file, allowed_user_ids_cache, users_file, db_users, acStarted>>

\* a handler that replies and changes none of the stores
Replies(m, handler, reply) ==
    /\ acLast' = Update(m, handler, reply)
    /\ UNCHANGED <<allowed_users_file, allowed_user_ids_cache, users_file, db_users, acStarted>>

\* [u for u in allowed_list if u['id'] != user_id]
Without(file, user_id) == SelectSeq(file, LAMBDA id : id # user_id)

\* the admin test of allow_user_command and removeuser_command, passed by everyone
MayManageUsersAnyone(user_id) == TRUE

\* message.from_user.id in ADMIN_IDS, as allow_user_command and removeuser_command test it
MayManageUsers(user_id) == user_id \in ADMIN_IDS

\* filedb.get_user_by_id: whether users.json has an entry with the id
get_user_by_id(user_id, users) == user_id \in users

\* The process starts with the files a former run or the operator left.  The
\* cache is the set() of the module's import: main() starts polling without
\* a call of load_allowed_users_cache().  The table users starts empty.
InitAccess ==
    /\ allowed_users_file \in {<<>>, <<101>>, <<102>>, <<101, 102>>}
    /\ allowed_user_ids_cache = {}
    /\ users_file \in SUBSET {101, 102}
    /\ db_users = {}
    /\ acStarted = {}
    /\ acLast = NoMessage
    /\ NormIdle
    /\ ExtractIdle
    /\ CodecIdle
    /\ BotIdle
    /\ ExportIdle
    /\ SessionIdle
    /\ CollectIdle

\* /start: db.upsert_user writes the row of the sender, or fails
access_start_command ==
    \E m \in Messages :
        /\ Route(m) = "start_command"
        /\ IF ~AccessControlMiddleware(m, allowed_user_ids_cache) THEN Refused(m)
           ELSE \E success \in BOOLEAN :
                /\ db_users' = IF success THEN db_users \cup {m.from_user} ELSE db_users
                /\ acStarted' = acStarted \cup {m.from_user}
                /\ acLast' = Update(m, "start_command",
                                    IF success THEN "Welcome to the Quiz Bot!"
                                    ELSE "Could not store your user info in the database.")
                /\ UNCHANGED <<allowed_users_file, allowed_user_ids_cache, users_file>>
        /\ UNCHANGED <<normVars, extractVars, codecVars, botVars, exportVars, sessionVars, collectVars>>

access_help_command ==
    \E m \in Messages :
        /\ Route(m) = "help_command"
        /\ IF ~AccessControlMiddleware(m, allowed_user_ids_cache) THEN Refused(m)
           ELSE Replies(m, "help_command", "help")
        /\ UNCHANGED <<normVars, extractVars, codecVars, botVars, exportVars, sessionVars, collectVars>>

\* a document message: handle_file in the sender's session, which this
\* specification leaves out
access_handle_file ==
    \E m \in Messages :
        /\ Route(m) = "handle_file"
        /\ IF ~AccessControlMiddleware(m, allowed_user_ids_cache) THEN Refused(m)
           ELSE Replies(m, "handle_file", "file")
        /\ UNCHANGED <<normVars, extractVars, codecVars, botVars, exportVars, sessionVars, collectVars>>

access_handle_text_message ==
    \E m \in Messages :
        /\ Route(m) = "handle_text_message"
        /\ IF ~AccessControlMiddleware(m, allowed_user_ids_cache) THEN Refused(m)
           ELSE Replies(m, "handle_text_message",
                        "Please use the keyboard buttons to interact with the bot.")
        /\ UNCHANGED <<normVars, extractVars, codecVars, botVars, exportVars, sessionVars, collectVars>>

\* add_allowed_user_from_user(user), which returns True on both paths
add_allowed_user_from_user(user_id) ==
    IF user_id \in allowed_user_ids_cache
    THEN UNCHANGED <<allowed_users_file, allowed_user_ids_cache>>
    ELSE /\ allowed_users_file' = Append(allowed_users_file, user_id)
         /\ allowed_user_ids_cache' = allowed_user_ids_cache \cup {user_id}

\* remove_allowed_user(user_id): TRUE when it returns True
remove_allowed_user_found(user_id) ==
    /\ user_id \in allowed_user_ids_cache
    /\ Len(Without(allowed_users_file, user_id)) # Len(allowed_users_file)

remove_allowed_user(user_id) ==
    IF remove_allowed_user_found(user_id)
    THEN /\ allowed_users_file' = Without(allowed_users_file, user_id)
         /\ allowed_user_ids_cache' = allowed_user_ids_cache \ {user_id}
    ELSE UNCHANGED <<allowed_users_file, allowed_user_ids_cache>>

allow_user_command ==
    \E m \in Messages :
        /\ Route(m) = "allow_user_command"
        /\ IF ~AccessControlMiddleware(m, allowed_user_ids_cache) THEN Refused(m)
           ELSE IF ~MayManageUsers(m.from_user)
           THEN Replies(m, "allow_user_command", "You are not authorized to allow users.")
           ELSE IF CommandArgsOf(m.text) = <<>>
           THEN Replies(m, "allow_user_command", "Usage: /allow_user <user_id>")
           ELSE IF ~is_int(Strip(CommandArgsOf(m.text)))
           THEN Replies(m, "allow_user_command", "Invalid user_id.")
           ELSE \E user_id \in {int(Strip(CommandArgsOf(m.text)))} :
                IF ~get_user_by_id(user_id, users_file)
                THEN Replies(m, "allow_user_command",
                             "is not in the users list. They must send /start first.")
                ELSE /\ add_allowed_user_from_user(user_id)
                     /\ acLast' = Update(m, "allow_user_command", "promoted to allowed users.")
                     /\ UNCHANGED <<users_file, db_users, acStarted>>
        /\ UNCHANGED <<normVars, extractVars, codecVars, botVars, exportVars, sessionVars, collectVars>>

removeuser_command ==
    \E m \in Messages :
        /\ Route(m) = "removeuser_command"
        /\ IF ~AccessControlMiddleware(m, allowed_user_ids_cache) THEN Refused(m)
           ELSE IF ~MayManageUsers(m.from_user)
           THEN Replies(m, "removeuser_command", "You are not authorized to remove users.")
           ELSE IF CommandArgsOf(m.text) = <<>>
           THEN Replies(m, "removeuser_command", "Usage: /removeuser <user_id>")
           ELSE IF ~is_int(Strip(CommandArgsOf(m.text)))
           THEN Replies(m, "removeuser_command", "ValueError")
           ELSE \E user_id \in {int(Strip(CommandArgsOf(m.text)))} :
                /\ remove_allowed_user(user_id)
                /\ acLast' = Update(m, "removeuser_command",
                                    IF remove_allowed_user_found(user_id)
                                    THEN "removed." ELSE "Failed to remove user.")
                /\ UNCHANGED <<users_file, db_users, acStarted>>
        /\ UNCHANGED <<normVars, extractVars, codecVars, botVars, exportVars, sessionVars, collectVars>>

listusers_command ==
    \E m \in Messages :
        /\ Route(m) = "listusers_command"
        /\ IF ~AccessControlMiddleware(m, allowed_user_ids_cache) THEN Refused(m)
           ELSE IF m.from_user \notin ADMIN_IDS
           THEN Replies(m, "listusers_command", "You are not authorized to list users.")
           ELSE Replies(m, "listusers_command",
                        IF allowed_users_file = <<>> THEN "No allowed users found."
                        ELSE "Allowed users:")
        /\ UNCHANGED <<normVars, extractVars, codecVars, botVars, exportVars, sessionVars, collectVars>>

myaccess_command ==
    \E m \in Messages :
        /\ Route(m) = "myaccess_command"
        /\ IF ~AccessControlMiddleware(m, allowed_user_ids_cache) THEN Refused(m)
           ELSE IF m.from_user \in ADMIN_IDS
           THEN Replies(m, "myaccess_command", "You are the bot admin and have full access.")
           ELSE Replies(m, "myaccess_command",
                        IF is_user_allowed(m.from_user, allowed_user_ids_cache)
                        THEN "You are allowed to use this bot."
                        ELSE "You are NOT allowed to use this bot.")
        /\ UNCHANGED <<normVars, extractVars, codecVars, botVars, exportVars, sessionVars, collectVars>>

NextAccess ==
    \/ access_start_command
    \/ access_help_command
    \/ access_handle_file
    \/ access_handle_text_message
    \/ allow_user_command
    \/ removeuser_command
    \/ listusers_command
    \/ myaccess_command

SpecAccess == InitAccess /\ [][NextAccess]_vars

\* the message of acLast
LastMessage == [from_user |-> acLast.sender, text |-> acLast.text, document |-> acLast.document]

\* C26: for every message update, a handler ran only if the text starts with
\* one of the exempt prefixes /start, /help, /allow_user, /removeuser,
\* /listusers, or the sender is in ADMIN_IDS, or the sender was an allowed
\* user when the message arrived; in every other case no handler ran and the
\* reply is the not-authorized one.
C26_MiddlewareAdmits ==
    acLast # NoMessage =>
        LET exempt == \E p \in ExemptPrefixes :
                          /\ Len(acLast.text) >= Len(p)
                          /\ \A i \in 1..Len(p) : acLast.text[i] = p[i]
            admitted == \/ exempt
                        \/ acLast.sender \in ADMIN_IDS
                        \/ acLast.sender \in acLast.cache_before
        IN  /\ admitted => acLast.handler = Route(LastMessage)
            /\ ~admitted => /\ acLast.handler = "none"
                            /\ acLast.reply = NotAuthorized
                            /\ allowed_users_file = acLast.file_before
                            /\ allowed_user_ids_cache = acLast.cache_before

\* a sender who is neither admin nor allowed was refused a plain text
C26_Witness ==
    /\ acLast # NoMessage
    /\ acLast.sender \notin ADMIN_IDS
    /\ acLast.sender \notin acLast.cache_before
    /\ acLast.text = <<"h", "i">>
    /\ acLast.handler = "none"
    /\ acLast.reply = NotAuthorized

\* an allowed user's document reached its handler
C26_AllowedUserAdmitted ==
    /\ acLast # NoMessage
    /\ acLast.sender \notin ADMIN_IDS
    /\ acLast.sender \in acLast.cache_before
    /\ acLast.handler = "handle_file"


\* C27: the allowed users (the file and the cache) change only through
\* /allow_user or /removeuser sent by a member of ADMIN_IDS: the same commands
\* from any other sender, and every other handler, leave them as they were.
C27_OnlyAdminCommandsChange ==
    (/\ acLast # NoMessage
     /\ \/ allowed_users_file # acLast.file_before
        \/ allowed_user_ids_cache # acLast.cache_before)
    => /\ acLast.handler \in {"allow_user_command", "removeuser_command"}
       /\ acLast.sender \in ADMIN_IDS

\* a sender outside ADMIN_IDS asked to remove an allowed user, who stays allowed
C27_Witness ==
    /\ acLast # NoMessage
    /\ acLast.handler = "removeuser_command"
    /\ acLast.sender \notin ADMIN_IDS
    /\ int(CommandArgsOf(acLast.text)) \in acLast.cache_before
    /\ int(CommandArgsOf(acLast.text)) \in allowed_user_ids_cache
    /\ int(CommandArgsOf(acLast.text)) \in IdsOf(allowed_users_file)
    /\ acLast.reply = "You are not authorized to remove users."

\* an admin's /allow_user and /removeuser do change them
C27_AdminChanges ==
    /\ acLast # NoMessage
    /\ acLast.sender \in ADMIN_IDS
    /\ allowed_user_ids_cache # acLast.cache_before


\* C28: in every state from the start of the process on (the start with an
\* allowed-users file that already holds entries included) the cache equals
\* the set of ids stored in the allowed-users file, so that is_user_allowed
\* is true exactly for the ids of the file, and the file holds no id twice.
C28_CacheIsFile ==
    /\ allowed_user_ids_cache = IdsOf(allowed_users_file)
    /\ \A id \in Senders :
           is_user_allowed(id, allowed_user_ids_cache) <=> id \in IdsOf(allowed_users_file)
    /\ \A i, j \in 1..Len(allowed_users_file) :
           allowed_users_file[i] = allowed_users_file[j] => i = j

\* the file never holds an id twice
C28_NoIdTwice ==
    \A i, j \in 1..Len(allowed_users_file) :
        allowed_users_file[i] = allowed_users_file[j] => i = j

\* an id of the file is refused by remove_allowed_user
C28_RemoveFindsFileIds ==
    (/\ acLast # NoMessage
     /\ acLast.handler = "removeuser_command"
     /\ acLast.sender \in ADMIN_IDS
     /\ int(CommandArgsOf(acLast.text)) \in IdsOf(acLast.file_before))
    => acLast.reply = "removed."


\* C29: after a user has sent /start, an admin's /allow_user with that
\* user's id finds the user in the user list and promotes them; from then on
\* is_user_allowed is true for the user and the middleware admits the user's
\* messages.
C29_StartThenAllow ==
    (/\ acLast # NoMessage
     /\ acLast.handler = "allow_user_command"
     /\ acLast.sender \in ADMIN_IDS
     /\ int(CommandArgsOf(acLast.text)) \in acStarted)
    => /\ acLast.reply = "promoted to allowed users."
       /\ is_user_allowed(int(CommandArgsOf(acLast.text)), allowed_user_ids_cache)
       /\ AccessControlMiddleware([from_user |-> int(CommandArgsOf(acLast.text)),
                                   text |-> <<"h", "i">>, document |-> FALSE],
                                  allowed_user_ids_cache)

\* the same for the users whose /start was stored in the table users
C29_StoredThenAllow ==
    (/\ acLast # NoMessage
     /\ acLast.handler = "allow_user_command"
     /\ acLast.sender \in ADMIN_IDS
     /\ int(CommandArgsOf(acLast.text)) \in acStarted \cap db_users)
    => acLast.reply = "promoted to allowed users."

\* /allow_user promotes exactly the users of users.json, whether they sent /start or not
C29_AllowFollowsUsersFile ==
    (/\ acLast # NoMessage
     /\ acLast.handler = "allow_user_command"
     /\ acLast.sender \in ADMIN_IDS
     /\ is_int(CommandArgsOf(acLast.text)))
    => (acLast.reply = "promoted to allowed users."
            <=> int(CommandArgsOf(acLast.text)) \in users_file)


----------------------------------------------------------------------------
(* The session states: /start, the two buttons of the main keyboard and    *)
(* the document messages, with what handle_file answered to the last one. *)

\* the documents of this specification: one of a wrong type, one with questions
SessionFiles == {1, 4}

\* the user whose session this specification follows
SessionUsers == {101}

NoState == "no state"

StateOf(u) == IF u \in DOMAIN user_states THEN user_states[u] ELSE NoState

\* what handle_file replies to the document before its first download (lines 163-181)
handle_file_reply(u, f) ==
    IF ~in_correct_state(u, user_states) THEN "none"
    ELSE IF rate_limited(u, user_last_file_time, now)
    THEN "Please wait"
    ELSE IF ~(\/ EndsWith(LowerText(Files[f].name), DotPdf)
              \/ EndsWith(LowerText(Files[f].name), DotTxt))
    THEN "Please send only PDF or text files"
    ELSE "Processing file..."

\* the replies of handle_file to a file that went past the rate limit
PastRateLimit == {"Please send only PDF or text files", "Processing file..."}

\* the arrival time of the last document of u that went past the rate limit,
\* as the documents seen so far tell it (empty when there was none)
PassedBefore(u) ==
    IF fdLast = NoDocument \/ fdLast.user # u THEN <<>>
    ELSE IF fdLast.reply \in PastRateLimit THEN <<fdLast.time>>
    ELSE fdLast.passed_before

InitSession ==
    /\ user_states = <<>>
    /\ user_last_file_time = <<>>
    /\ extracted_data = <<>>
    /\ tasks = <<>>
    /\ now = 0
    /\ user_quiz_batches = <<>>
    /\ fdLast = NoDocument
    /\ NormIdle
    /\ ExtractIdle
    /\ CodecIdle
    /\ ExportIdle
    /\ AccessIdle
    /\ CollectIdle

\* user_quiz_batches[u]['quizzes'], empty when u has no batch
BatchOf(u) == IF u \in DOMAIN user_quiz_batches THEN user_quiz_batches[u] ELSE <<>>

\* start_command, for the session: the state of the sender becomes IDLE
session_start_command(u) ==
    /\ user_states' = Put(user_states, u, IDLE)
    /\ UNCHANGED <<user_last_file_time, extracted_data, tasks, now, harnessVars>>

\* the "Extract Quizzes from Forwards" button
handle_extract_quizzes_button(u) ==
    /\ user_states' = Put(user_states, u, COLLECTING_FORWARDED_QUIZZES)
    /\ user_quiz_batches' = Put(user_quiz_batches, u, <<>>)
    /\ collected' = Put(collected, u, 0)
    /\ exported' = IF BatchOf(u) # <<>>
                   THEN Append(exported, [user |-> u, kind |-> "cleared", quizzes |-> BatchOf(u)])
                   ELSE exported
    /\ UNCHANGED <<user_last_file_time, extracted_data, tasks, now, fdLast,
                   forwarded, saved, finishing,
                   normVars, extractVars, codecVars, exportVars, accessVars>>

\* a document message reaches handle_file
document_message(u, chat, f) ==
    /\ handle_file_start(u, chat, f)
    /\ fdLast' = [user |-> u, state |-> StateOf(u), reply |-> handle_file_reply(u, f),
                  changed |-> <<user_states, user_last_file_time, extracted_data, tasks>>'
                                  # <<user_states, user_last_file_time, extracted_data, tasks>>,
                  time |-> now, passed_before |-> PassedBefore(u)]
    /\ UNCHANGED <<user_quiz_batches, normVars, extractVars, codecVars, exportVars, accessVars,
                   collectVars>>

NextSession ==
    \/ \E u \in SessionUsers : session_start_command(u)
    \/ \E u \in SessionUsers : handle_create_quiz_button(u)
    \/ \E u \in SessionUsers : handle_extract_quizzes_button(u)
    \/ \E u \in SessionUsers : \E chat \in ChatsOf(u) : \E f \in SessionFiles : document_message(u, chat, f)
    \/ \E n \in 1..Len(tasks) : handle_file_extract(n)
    \/ \E n \in 1..Len(tasks) : send_poll(n)
    \/ \E n \in 1..Len(tasks) : pacing_delay(n)
    \/ \E n \in 1..Len(tasks) : handle_file_result(n)
    \/ \E n \in 1..Len(tasks) : handle_file_state(n)
    \/ Tick

SpecSession == InitSession /\ [][NextSession]_vars

\* C30: handle_file has an effect only when the sender's state is
\* WAITING_FOR_FILE: in any other state (no state, IDLE, EXTRACTING_QUIZZES,
\* COLLECTING_FORWARDED_QUIZZES) the document gets no reply, starts no
\* sending of polls and leaves user_states, user_last_file_time and the
\* extracted data as they were.
C30_OnlyWhenWaitingForFile ==
    (fdLast # NoDocument /\ fdLast.state # WAITING_FOR_FILE)
    => /\ fdLast.state \in {NoState, IDLE, EXTRACTING_QUIZZES, COLLECTING_FORWARDED_QUIZZES}
       /\ fdLast.reply = "none"
       /\ ~fdLast.changed

\* a document arrived while its sender was collecting forwarded quizzes
C30_Witness ==
    /\ fdLast # NoDocument
    /\ fdLast.state = COLLECTING_FORWARDED_QUIZZES
    /\ fdLast.reply = "none"
    /\ ~fdLast.changed

\* documents arrived in each of the other states too
C30_NoStateSeen == fdLast # NoDocument /\ fdLast.state = NoState

C30_IdleSeen == fdLast # NoDocument /\ fdLast.state = IDLE

C30_ExtractingSeen == fdLast # NoDocument /\ fdLast.state = EXTRACTING_QUIZZES

C30_WaitingSeen == fdLast # NoDocument /\ fdLast.state = WAITING_FOR_FILE /\ fdLast.changed


\* C31: a file of a user goes past the rate limit of handle_file only if at
\* least MIN_INTERVAL_BETWEEN_FILES seconds have passed since the last file
\* of that user that went past it; a file the limit refuses starts no
\* sending of polls and leaves the user's last-file time and session state
\* as they were.
C31_RateLimit ==
    fdLast # NoDocument =>
        /\ (fdLast.reply \in PastRateLimit /\ fdLast.passed_before # <<>>)
               => fdLast.time - fdLast.passed_before[1] >= MIN_INTERVAL_BETWEEN_FILES
        /\ fdLast.reply = "Please wait" => ~fdLast.changed

\* a file was refused by the limit, after one that went past it
C31_Witness ==
    /\ fdLast # NoDocument
    /\ fdLast.reply = "Please wait"
    /\ fdLast.passed_before # <<>>
    /\ fdLast.time - fdLast.passed_before[1] < MIN_INTERVAL_BETWEEN_FILES
    /\ ~fdLast.changed

\* a second file went past the limit, MIN_INTERVAL_BETWEEN_FILES seconds after the first
C31_SecondFilePassed ==
    /\ fdLast # NoDocument
    /\ fdLast.reply \in PastRateLimit
    /\ fdLast.passed_before # <<>>


----------------------------------------------------------------------------
(* Collecting forwarded quizzes: handle_forwarded_quiz, the callbacks      *)
(* finish_extraction and cancel_extraction, and the handlers that set the  *)
(* session state.  A forwarded quiz is known by the number of its message. *)
(* Handlers run as tasks of one event loop: a handler runs alone from one  *)
(* await to the next, and other handlers run while it waits.               *)

MaxForwarded == 2

MaxFinishing == 2

\* the state check of handle_forwarded_quiz, passed in every state
may_store_always(u, states) == TRUE

\* the state check of handle_forwarded_quiz (line 271), TRUE when the handler goes on
may_store(u, states) == u \in DOMAIN states /\ states[u] = COLLECTING_FORWARDED_QUIZZES

\* the quiz put in front of the batch
StoreQuizFirst(batch, quiz) == <<quiz>> \o batch

\* user_quiz_batches[user_id]['quizzes'].append(quiz)
StoreQuiz(batch, quiz) == Append(batch, quiz)

\* the batch left in place by the callback
PopBatchKept(batches, u) == batches

\* what user_quiz_batches.pop(user_id) leaves of user_quiz_batches
PopBatch(batches, u) == Del(batches, u)

\* enumerate(quizzes, 1): each quiz with the number it is formatted with
Numbered(quizzes) == [i \in 1..Len(quizzes) |-> [num |-> i, quiz |-> quizzes[i]]]

InitCollect ==
    /\ user_states = <<>>
    /\ user_last_file_time = <<>>
    /\ extracted_data = <<>>
    /\ tasks = <<>>
    /\ now = 0
    /\ user_quiz_batches = <<>>
    /\ fdLast = NoDocument
    /\ forwarded = 0
    /\ collected = <<>>
    /\ saved = <<>>
    /\ finishing = <<>>
    /\ exported = <<>>
    /\ NormIdle
    /\ ExtractIdle
    /\ CodecIdle
    /\ ExportIdle
    /\ AccessIdle

\* a forwarded quiz reaches handle_forwarded_quiz, which has no await before its reply
handle_forwarded_quiz(u) ==
    /\ forwarded < MaxForwarded
    /\ forwarded' = forwarded + 1
    /\ IF ~may_store(u, user_states)
       THEN UNCHANGED <<user_quiz_batches, collected, saved>>
       ELSE \E quiz \in {forwarded + 1} : \E batch \in {StoreQuiz(BatchOf(u), quiz)} :
            \E since \in {(IF u \in DOMAIN collected THEN collected[u] ELSE 0) + 1} :
                /\ user_quiz_batches' = Put(user_quiz_batches, u, batch)
                /\ collected' = Put(collected, u, since)
                /\ saved' = Append(saved, [user |-> u, quiz |-> quiz, count |-> Len(batch),
                                           state |-> StateOf(u), batch |-> batch,
                                           collected |-> since])
    /\ UNCHANGED <<botVars, fdLast, finishing, exported,
                   normVars, extractVars, codecVars, exportVars, accessVars>>

\* finish_extraction_callback up to its first await: the check for saved quizzes
finish_extraction_check(u) ==
    /\ Len(finishing) < MaxFinishing
    /\ finishing' = Append(finishing,
                           [user |-> u, quizzes |-> <<>>,
                            pc |-> IF BatchOf(u) = <<>> THEN "no_quizzes" ELSE "answer"])
    /\ UNCHANGED <<botVars, sessionVars, forwarded, collected, saved, exported,
                   normVars, extractVars, codecVars, exportVars, accessVars>>

\* finish_extraction_callback after "Processing quizzes..." was answered: the
\* batch is popped and formatted, up to the await of the reply; the pop raises
\* KeyError when the batch is gone, and the handler ends in its except clause
finish_extraction_pop(n) ==
    /\ finishing[n].pc = "answer"
    /\ \E u \in {finishing[n].user} :
        IF u \notin DOMAIN user_quiz_batches
        THEN /\ finishing' = [finishing EXCEPT ![n].pc = "error"]
             /\ UNCHANGED <<user_quiz_batches, exported>>
        ELSE /\ user_quiz_batches' = PopBatch(user_quiz_batches, u)
             /\ finishing' = [finishing EXCEPT ![n].pc = "reply",
                                               ![n].quizzes = user_quiz_batches[u]]
             /\ exported' = Append(exported, [user |-> u, kind |-> "export",
                                              quizzes |-> Numbered(user_quiz_batches[u])])
    /\ UNCHANGED <<botVars, fdLast, forwarded, collected, saved,
                   normVars, extractVars, codecVars, exportVars, accessVars>>

\* finish_extraction_callback after its replies: the state is reset
finish_extraction_done(n) ==
    /\ finishing[n].pc = "reply"
    /\ user_states' = Put(user_states, finishing[n].user, IDLE)
    /\ finishing' = [finishing EXCEPT ![n].pc = "done"]
    /\ UNCHANGED <<user_last_file_time, extracted_data, tasks, now, sessionVars,
                   forwarded, collected, saved, exported,
                   normVars, extractVars, codecVars, exportVars, accessVars>>

cancel_extraction_callback(u) ==
    /\ user_quiz_batches' = Del(user_quiz_batches, u)
    /\ user_states' = Put(user_states, u, IDLE)
    /\ exported' = IF BatchOf(u) # <<>>
                   THEN Append(exported, [user |-> u, kind |-> "cancelled", quizzes |-> BatchOf(u)])
                   ELSE exported
    /\ UNCHANGED <<user_last_file_time, extracted_data, tasks, now, fdLast,
                   forwarded, collected, saved, finishing,
                   normVars, extractVars, codecVars, exportVars, accessVars>>

NextCollect ==
    \/ \E u \in Users : session_start_command(u)
    \/ \E u \in Users : handle_create_quiz_button(u)
    \/ \E u \in Users : handle_extract_quizzes_button(u)
    \/ \E u \in Users : handle_forwarded_quiz(u)
    \/ \E u \in Users : finish_extraction_check(u)
    \/ \E n \in 1..Len(finishing) : finish_extraction_pop(n)
    \/ \E n \in 1..Len(finishing) : finish_extraction_done(n)
    \/ \E u \in Users : cancel_extraction_callback(u)

SpecCollect == InitCollect /\ [][NextCollect]_vars

\* the quizzes of the sequence stand in the order of their arrival
InArrivalOrder(quizzes) == \A i, j \in 1..Len(quizzes) : i < j => quizzes[i] < quizzes[j]

\* C32: a forwarded quiz is stored only while the state of its sender is
\* COLLECTING_FORWARDED_QUIZZES; it is appended at the end of the sender's
\* batch, which so holds the quizzes in the order of their arrival, and the
\* count of the 'Quiz saved (count)' reply is the number of quizzes stored
\* since the collection was started.
C32_StoredInOrderAndCounted ==
    \A k \in 1..Len(saved) :
        /\ saved[k].state = COLLECTING_FORWARDED_QUIZZES
        /\ saved[k].batch[Len(saved[k].batch)] = saved[k].quiz
        /\ InArrivalOrder(saved[k].batch)
        /\ saved[k].count = saved[k].collected

\* the same without the count: state, place and order of the stored quiz
C32_StoredInOrder ==
    \A k \in 1..Len(saved) :
        /\ saved[k].state = COLLECTING_FORWARDED_QUIZZES
        /\ saved[k].batch[Len(saved[k].batch)] = saved[k].quiz
        /\ InArrivalOrder(saved[k].batch)
        /\ saved[k].count = Len(saved[k].batch)

\* the count is the number stored since the start as long as no
\* finish_extraction_callback has popped a batch of the user since then
C32_CountedUnlessPopped ==
    \A k \in 1..Len(saved) :
        saved[k].count # saved[k].collected
            => \E x \in 1..Len(exported) :
                   /\ exported[x].user = saved[k].user
                   /\ exported[x].kind = "export"
                   /\ \A i \in 1..Len(exported[x].quizzes) :
                          exported[x].quizzes[i].quiz < saved[k].quiz

\* a second quiz was stored behind the first
C32_TwoStored == \E k \in 1..Len(saved) : saved[k].count = 2 /\ saved[k].collected = 2


\* the exports proper among the records of exported
Exports == SelectSeq(exported, LAMBDA x : x.kind = "export")

C34_BatchOnlyWhileCollecting ==
    \A u \in Users :
        u \in DOMAIN user_quiz_batches => StateOf(u) = COLLECTING_FORWARDED_QUIZZES

\* a batch with an acknowledged quiz is left to a user whose state is IDLE
C34_QuizLeftBehind ==
    \E u \in Users : StateOf(u) = IDLE /\ BatchOf(u) # <<>>


\* d[v] as a sequence of one entry, empty when d has no key v
EntryOf(d, v) == IF v \in DOMAIN d THEN <<d[v]>> ELSE <<>>

\* what the program keeps for user v: session state, quiz batch, last-file
\* time and extracted data
UserEntries(v) ==
    <<EntryOf(user_states, v), EntryOf(user_quiz_batches, v),
      EntryOf(user_last_file_time, v), EntryOf(extracted_data, v)>>

\* a step of a handler that runs for user u
HandlerStepFor(u) ==
    \/ session_start_command(u)
    \/ handle_create_quiz_button(u)
    \/ handle_extract_quizzes_button(u)
    \/ handle_forwarded_quiz(u)
    \/ finish_extraction_check(u)
    \/ cancel_extraction_callback(u)
    \/ cancel_processing_callback(u)
    \/ \E chat \in ChatsOf(u) : \E f \in 1..Len(Files) : handle_file(u, chat, f)
    \/ \E n \in 1..Len(finishing) :
          /\ finishing[n].user = u
          /\ finish_extraction_pop(n) \/ finish_extraction_done(n)
    \/ \E n \in 1..Len(tasks) :
          /\ tasks[n].user = u
          /\ \/ handle_file_extract(n)
             \/ send_poll(n)
             \/ pacing_delay(n)
             \/ handle_file_result(n)
             \/ handle_file_state(n)

C36_OneSkipPerQuestion ==
    exPhase = "done" => Len(exResult.skipped) <= Cardinality(NonEmptyBlocks)

\* the block-based pass alone skips each block at most once
C36_BlockPassSkipsOnce ==
    exPhase = "done" => Len(BlockPass.skipped_questions) <= Cardinality(NonEmptyBlocks)

\* without the whole-document patterns the returned list has one entry a block at most
C36_OneSkipUnlessPatternsRan ==
    (exPhase = "done" /\ Len(BlockPass.questions) > 0)
        => Len(exResult.skipped) <= Cardinality(NonEmptyBlocks)

====
